---- MODULE Spec2Model ----
(***************************************************************************)
(* A model of m6rclib's MetaphorParser (metaphor_parser.py) and of the     *)
(* MetaphorASTNode tree it builds (metaphor_ast_node.py).                  *)
(*                                                                         *)
(* The parser is a recursive-descent parser; its Python call stack is the  *)
(* variable 'stack', one frame per active call of parse, _parse_role,      *)
(* _parse_context, _parse_action, get_next_token, _parse_include and       *)
(* _parse_embed.  One action is one straight-line stretch of one of those  *)
(* functions: from the point where a call of get_next_token (or of a block *)
(* parser) returns to it, up to its next call or its return.               *)
(*                                                                         *)
(* Strings are sequences of pieces, so that concatenation is \o: a path is *)
(* the sequence of its components, a message the sequence of its parts.    *)
(* A backtick of the source is written as an apostrophe.                   *)
(***************************************************************************)
EXTENDS Integers, Sequences, FiniteSets, TLC

VARIABLES
    nodes,                  \* the MetaphorASTNode objects; nodes[1] is self.syntax_tree
    parse_errors,           \* self.parse_errors
    lexers,                 \* self.lexers, top of the stack last
    previously_seen_files,  \* self.previously_seen_files
    search_paths,           \* self.search_paths
    current_token,          \* self.current_token
    stack,                  \* the Python call stack, innermost frame last
    ret,                    \* the value the last completed call returned
    outcome,                \* "new", "running", then how the entry point ended  
    input_text,             \* the tokens of parse()'s input_text lexed so far
    delivered,              \* history: every token get_next_token has returned
    included,               \* history: the canonical path of every file an Include
                            \* has pushed a lexer for
    other                   \* a second MetaphorParser instance, while this one runs

vars == <<nodes, parse_errors, lexers, previously_seen_files, search_paths,
          current_token, stack, ret, outcome, input_text, delivered, included,
          other>>

\* The longest input_text, in tokens, that parse() is given.
MaxTokens == 4

-----------------------------------------------------------------------------
(* Paths: os.path and pathlib over sequences of components.                *)

cwd == <<"/", "cwd">>

isabs(p) == p # <<>> /\ p[1] = "/"

RECURSIVE normpath(_)
normpath(p) ==
    IF p = <<>> THEN <<>>
    ELSE IF Head(p) = "." THEN normpath(Tail(p))
    ELSE <<Head(p)>> \o normpath(Tail(p))

\* os.path.realpath: absolute, "." removed (the disk below holds no symlink)
realpath(p) == normpath(IF isabs(p) THEN p ELSE cwd \o p)

\* os.path.join(path, filename)
join(path, filename) == IF isabs(filename) THEN filename ELSE path \o filename

-----------------------------------------------------------------------------
(* Tokens (metaphor_token.Token, TokenType).  A lexeme is a token before   *)
(* the lexer has stamped its position on it.                               *)

TokenType ==
    {"NONE", "INDENT", "OUTDENT", "INCLUDE", "EMBED", "KEYWORD_TEXT", "TEXT",
     "ACTION", "CONTEXT", "ROLE", "BAD_INDENT", "BAD_OUTDENT", "TAB",
     "END_OF_FILE"}

\* a lexeme at a place of its text
at(type, value, line, column) ==
    [type |-> type, value |-> value, line |-> line, column |-> column]

\* a lexeme of a text that is not held line by line: its place is its turn
lx(type, value) == at(type, value, 0, 0)

Token(type, value, input, filename, line, column) ==
    [type |-> type, value |-> value, input |-> input, filename |-> filename,
     line |-> line, column |-> column]

\* The raw source line of a token: the model does not hold the text of a file
\* line by line, so the line is named by its file and its number.
SourceLine(filename, line) == <<"line ", ToString(line), " of ">> \o filename

\* The value the lexer gives a token that stands for no text of its own.
KeywordValue(type) ==
    CASE type = "ROLE" -> <<"Role:">>
      [] type = "CONTEXT" -> <<"Context:">>
      [] type = "ACTION" -> <<"Action:">>
      [] type = "INCLUDE" -> <<"Include:">>
      [] type = "EMBED" -> <<"Embed:">>
      [] type = "BAD_INDENT" -> <<"[Bad Indent]">>
      [] type = "BAD_OUTDENT" -> <<"[Bad Outdent]">>
      [] type = "TAB" -> <<"[Tab]">>
      [] type = "INDENT" -> <<"[Indent]">>
      [] type = "OUTDENT" -> <<"[Outdent]">>
      [] OTHER -> <<>>

k(type) == lx(type, KeywordValue(type))
kt(value) == lx("KEYWORD_TEXT", value)
tx(value) == lx("TEXT", <<value>>)

-----------------------------------------------------------------------------
(* The structural lexer (metaphor_lexer.MetaphorLexer).  A text is taken   *)
(* line by line; a line is the number of its leading spaces, whether a tab *)
(* stands in its indentation, and what its content is: nothing, a comment, *)
(* a keyword with the rest of the line, or text.                           *)

Line(indent, tab, kind, keyword, rest) ==
    [indent |-> indent, tab |-> tab, kind |-> kind, keyword |-> keyword, rest |-> rest]

KeywordLine(indent, type, rest) == Line(indent, FALSE, "keyword", type, rest)
TextLine(indent, text) == Line(indent, FALSE, "text", "NONE", <<text>>)
BlankLine == Line(0, FALSE, "blank", "NONE", <<>>)
CommentLine(indent) == Line(indent, FALSE, "comment", "NONE", <<>>)

\* a line of three backticks, with or without a language after them
FenceLine(indent) == Line(indent, FALSE, "fence", "NONE", <<"'''">>)

\* the number of spaces of one level of indentation
indent_spaces == 4

\* the length of a keyword with its colon
KeywordLength(type) ==
    CASE type = "ROLE" -> 5
      [] type = "CONTEXT" -> 8
      [] type = "ACTION" -> 7
      [] type = "INCLUDE" -> 8
      [] type = "EMBED" -> 6

\* the indentation stack without the levels above column
RECURSIVE PopTo(_, _)
PopTo(indent_stack, column) ==
    IF indent_stack[Len(indent_stack)] = column THEN indent_stack
    ELSE PopTo(SubSeq(indent_stack, 1, Len(indent_stack) - 1), column)

InStack(indent_stack, column) == \E i \in 1..Len(indent_stack) : indent_stack[i] = column

\* one OUTDENT for a line indented less, however many levels it closes
IndentTokens_one_outdent(indent_stack, column, n) ==
    LET top == indent_stack[Len(indent_stack)] IN
    IF column = top THEN <<>>
    ELSE IF column > top
    THEN IF (column - top) % indent_spaces # 0
         THEN <<at("BAD_INDENT", KeywordValue("BAD_INDENT"), n, column)>>
         ELSE <<at("INDENT", KeywordValue("INDENT"), n, column)>>
    ELSE IF InStack(indent_stack, column)
         THEN <<at("OUTDENT", KeywordValue("OUTDENT"), n, column)>>
         ELSE <<at("BAD_OUTDENT", KeywordValue("BAD_OUTDENT"), n, column)>>

\* the structural tokens of a line whose content begins at column, on line n
IndentTokens(indent_stack, column, n) ==
    LET top == indent_stack[Len(indent_stack)] IN
    IF column = top THEN <<>>
    ELSE IF column > top
    THEN IF (column - top) % indent_spaces # 0
         THEN <<at("BAD_INDENT", KeywordValue("BAD_INDENT"), n, column)>>
         ELSE <<at("INDENT", KeywordValue("INDENT"), n, column)>>
    ELSE IF InStack(indent_stack, column)
         THEN [i \in 1..(Len(indent_stack) - Len(PopTo(indent_stack, column))) |->
                  at("OUTDENT", KeywordValue("OUTDENT"), n, column)]
         ELSE <<at("BAD_OUTDENT", KeywordValue("BAD_OUTDENT"), n, column)>>

\* an indentation stack that keeps the levels a line has left
IndentStack_never_pops(indent_stack, column) ==
    LET top == indent_stack[Len(indent_stack)] IN
    IF column > top /\ (column - top) % indent_spaces = 0 THEN Append(indent_stack, column)
    ELSE indent_stack

\* the indentation stack after that line
IndentStack(indent_stack, column) ==
    LET top == indent_stack[Len(indent_stack)] IN
    IF column > top /\ (column - top) % indent_spaces = 0 THEN Append(indent_stack, column)
    ELSE IF column < top /\ InStack(indent_stack, column) THEN PopTo(indent_stack, column)
    ELSE indent_stack

\* the tokens of the content of a line
ContentTokens(line, column, n) ==
    IF line.kind = "keyword"
    THEN <<at(line.keyword, KeywordValue(line.keyword), n, column)>>
           \o (IF line.rest = <<>> THEN <<>>
               ELSE <<at("KEYWORD_TEXT", line.rest, n,
                         column + KeywordLength(line.keyword) + 1)>>)
    ELSE <<at("TEXT", line.rest, n, column)>>

\* the tokens of line n: none for a blank line or a comment; a TAB for a tab
\* in the indentation, which is then not measured
LineTokens(indent_stack, line, n) ==
    IF line.kind \in {"blank", "comment"} THEN <<>>
    ELSE IF line.tab
    THEN <<at("TAB", KeywordValue("TAB"), n, 1)>> \o ContentTokens(line, line.indent + 1, n)
    ELSE IndentTokens(indent_stack, line.indent + 1, n)
           \o ContentTokens(line, line.indent + 1, n)

LineStack(indent_stack, line) ==
    IF line.kind \in {"blank", "comment"} \/ line.tab THEN indent_stack
    ELSE IndentStack(indent_stack, line.indent + 1)

\* the characters of a line after its indentation
Raw(line) ==
    CASE line.kind = "keyword" -> KeywordValue(line.keyword) \o line.rest
      [] line.kind = "comment" -> <<"#">>
      [] line.kind = "blank" -> <<"">>
      [] OTHER -> line.rest

\* a line without the first column - 1 characters of its indentation
Unindented(line, column) ==
    (IF line.tab THEN <<"\\t">> ELSE <<>>)
      \o [i \in 1..(line.indent + 1 - column) |-> " "]
      \o Raw(line)

\* the lexer with blank lines and comments left out inside a fenced code
\* block, as they are outside one
FencedTokens_skips_comments(indent_stack, line, n) ==
    IF line.kind \in {"blank", "comment"} THEN <<>>
    ELSE <<at("TEXT", Unindented(line, indent_stack[Len(indent_stack)]), n,
              indent_stack[Len(indent_stack)])>>

\* the token of line n inside a fenced code block: the line as it is, less
\* the indentation of the block
FencedTokens(indent_stack, line, n) ==
    <<at("TEXT", Unindented(line, indent_stack[Len(indent_stack)]), n,
         indent_stack[Len(indent_stack)])>>

\* the fence flag after a line: a line of three backticks at the current
\* indentation turns it on, and off again
InFencedCode(in_fenced_code, indent_stack, line) ==
    IF in_fenced_code
    THEN ~(line.kind = "fence" /\ ~line.tab
             /\ line.indent + 1 = indent_stack[Len(indent_stack)])
    ELSE line.kind = "fence" /\ ~line.tab

\* the tokens of the lines from line n on, then one OUTDENT for every level
\* still open at the end of the input
RECURSIVE LexFrom(_, _, _, _)
LexFrom(lines, n, indent_stack, in_fenced_code) ==
    IF n > Len(lines)
    THEN [i \in 1..(Len(indent_stack) - 1) |->
             at("OUTDENT", KeywordValue("OUTDENT"), n, 1)]
    ELSE IF in_fenced_code
    THEN FencedTokens(indent_stack, lines[n], n)
           \o LexFrom(lines, n + 1, indent_stack,
                      InFencedCode(TRUE, indent_stack, lines[n]))
    ELSE LineTokens(indent_stack, lines[n], n)
           \o LexFrom(lines, n + 1, LineStack(indent_stack, lines[n]),
                      InFencedCode(FALSE, LineStack(indent_stack, lines[n]), lines[n]))

\* the tokens of a text, END_OF_FILE left out
Lex(lines) == LexFrom(lines, 1, <<1>>, FALSE)

-----------------------------------------------------------------------------
(* The documents of the repository's tests, line by line.                  *)

\* tests/test_metaphor_parser.py temp_test_files: main.m6r
MainDoc ==
    <<KeywordLine(0, "ROLE", <<"Test">>), TextLine(4, "Description"),
      KeywordLine(0, "CONTEXT", <<"TestContext">>), TextLine(4, "Some context"),
      KeywordLine(0, "ACTION", <<"TestAction">>), TextLine(4, "Do something")>>

\* temp_test_files: include.m6r
IncludeDoc ==
    <<KeywordLine(0, "CONTEXT", <<"Include">>), TextLine(4, "Included content")>>

\* test_recursive_includes: file1.m6r and file2.m6r include each other
File1Doc ==
    <<KeywordLine(0, "ROLE", <<"Test1">>), TextLine(4, "Description"),
      KeywordLine(0, "INCLUDE", <<"file2.m6r">>)>>

File2Doc ==
    <<KeywordLine(0, "CONTEXT", <<"Test2">>), TextLine(4, "Description"),
      KeywordLine(0, "INCLUDE", <<"file1.m6r">>)>>

\* test_context_late_text
LateDoc ==
    <<KeywordLine(0, "CONTEXT", <<"TestContext">>), TextLine(4, "First text"),
      KeywordLine(4, "CONTEXT", <<"Inner">>), TextLine(8, "Inner content"),
      TextLine(4, "Late text is wrong here")>>

\* tests/test_metaphor_lexer.py basic_lexer: text, then a nested Context
BasicDoc ==
    <<KeywordLine(0, "ROLE", <<"TestRole">>), TextLine(4, "This is a test role description"),
      KeywordLine(0, "CONTEXT", <<"TestContext">>), TextLine(4, "This is a test context"),
      KeywordLine(4, "CONTEXT", <<"Nested">>), TextLine(8, "This is nested"),
      KeywordLine(0, "ACTION", <<"TestAction">>), TextLine(4, "Do something")>>

\* two nested Contexts side by side, each with its own text
SiblingsDoc ==
    <<KeywordLine(0, "CONTEXT", <<"Outer">>),
      KeywordLine(4, "CONTEXT", <<"First">>), TextLine(8, "First text"),
      KeywordLine(4, "CONTEXT", <<"Second">>), TextLine(8, "Second text")>>

\* a file that includes itself, and a cycle of three files
SelfDoc == <<KeywordLine(0, "INCLUDE", <<"self.m6r">>)>>
Cycle1Doc == <<TextLine(0, "one"), KeywordLine(0, "INCLUDE", <<"cycle2.m6r">>)>>
Cycle2Doc == <<TextLine(0, "two"), KeywordLine(0, "INCLUDE", <<"cycle3.m6r">>)>>
Cycle3Doc == <<TextLine(0, "three"), KeywordLine(0, "INCLUDE", <<"cycle1.m6r">>)>>

\* a file that goes on after its Include
NestedDoc ==
    <<KeywordLine(0, "INCLUDE", <<"include.m6r">>),
      KeywordLine(0, "ROLE", <<"Nested">>), TextLine(4, "After the include")>>

\* test_search_paths: includes/included.m6r, found only through a search path
IncludedDoc ==
    <<KeywordLine(0, "CONTEXT", <<"Included">>), TextLine(4, "Content")>>

\* tests/test_metaphor_lexer.py test_bad_indentation
BadIndentDoc ==
    <<KeywordLine(0, "ROLE", <<"Test">>), TextLine(3, "Bad indent")>>

\* test_action_bad_outdent
BadOutdentDoc ==
    <<KeywordLine(0, "ACTION", <<"DoSomething">>), TextLine(4, "First line correct"),
      TextLine(3, "Bad outdent level"), TextLine(4, "Back to correct")>>

\* test_wildcard_embed: main.m6r, with test1.txt and test2.txt beside it
WildcardEmbedDoc ==
    <<KeywordLine(0, "ROLE", <<"Test">>), TextLine(4, "Description"),
      KeywordLine(0, "CONTEXT", <<"Files">>), TextLine(4, "Context text"),
      KeywordLine(4, "EMBED", <<"test*.txt">>)>>

\* test_include_missing_filename
IncludeNoFileDoc ==
    <<KeywordLine(0, "ROLE", <<"Test">>), TextLine(4, "First text"),
      KeywordLine(4, "INCLUDE", <<>>)>>

\* test_embed_missing_filename
EmbedNoFileDoc ==
    <<KeywordLine(0, "CONTEXT", <<"Test">>), TextLine(4, "First text"),
      KeywordLine(4, "EMBED", <<>>)>>

\* test_embed_no_matches
EmbedNoMatchesDoc ==
    <<KeywordLine(0, "CONTEXT", <<"Test">>), TextLine(4, "First text"),
      KeywordLine(4, "EMBED", <<"nonexistent*.txt">>)>>

\* an Embed whose pattern matches a directory, which cannot be read
EmbedDirectoryDoc ==
    <<KeywordLine(0, "CONTEXT", <<"Test">>), TextLine(4, "First text"),
      KeywordLine(4, "EMBED", <<"/", "includes">>)>>

\* test_search_paths: main.m6r
SearchDoc ==
    <<KeywordLine(0, "ROLE", <<"Test">>), TextLine(4, "Description"),
      KeywordLine(0, "INCLUDE", <<"included.m6r">>)>>

\* a Role with no description, its text indented as usual
EmptyValueDoc ==
    <<KeywordLine(0, "ROLE", <<>>), TextLine(4, "Description")>>

-----------------------------------------------------------------------------
(* The disk the parse runs on.  A file holds raw text; tokenize gives the  *)
(* lexemes the structural lexer makes of a text.                           *)

File(text) == [kind |-> "file", text |-> text]
Directory == [kind |-> "dir", text |-> ""]

Disk ==
    (<<"/", "cwd", "main.m6r">> :> File("Role: Test\n    Description\nContext: TestContext\n    Some context\nAction: TestAction\n    Do something")) @@
    (<<"/", "cwd", "include.m6r">> :> File("Context: Include\n    Included content")) @@
    (<<"/", "cwd", "file1.m6r">> :> File("Role: Test1\n    Description\nInclude: file2.m6r")) @@
    (<<"/", "cwd", "file2.m6r">> :> File("Context: Test2\n    Description\nInclude: file1.m6r")) @@
    (<<"/", "cwd", "late.m6r">> :> File("Context: TestContext\n    First text\n    Context: Inner\n        Inner content\n    Late text is wrong here")) @@
    (<<"/", "cwd", "basic.m6r">> :> File("Role: TestRole\n    This is a test role description\nContext: TestContext\n    This is a test context\n    Context: Nested\n        This is nested\nAction: TestAction\n    Do something")) @@
    (<<"/", "cwd", "siblings.m6r">> :> File("Context: Outer\n    Context: First\n        First text\n    Context: Second\n        Second text")) @@
    (<<"/", "cwd", "self.m6r">> :> File("Include: self.m6r")) @@
    (<<"/", "cwd", "cycle1.m6r">> :> File("one\nInclude: cycle2.m6r")) @@
    (<<"/", "cwd", "cycle2.m6r">> :> File("two\nInclude: cycle3.m6r")) @@
    (<<"/", "cwd", "cycle3.m6r">> :> File("three\nInclude: cycle1.m6r")) @@
    (<<"/", "cwd", "nested.m6r">> :> File("Include: include.m6r\nRole: Nested\n    After the include")) @@
    (<<"/", "includes">> :> Directory) @@
    (<<"/", "includes", "included.m6r">> :> File("Context: Included\n    Content")) @@
    (<<"/", "includes", "include.m6r">> :> File("Context: Include\n    Included content")) @@
    (<<"/", "other">> :> Directory) @@
    (<<"/", "other", "included.m6r">> :> File("Context: Included\n    Content")) @@
    (<<"/", "empty">> :> Directory) @@
    (<<"/", "cwd", "bad_indent.m6r">> :> File("Role: Test\n   Bad indent")) @@
    (<<"/", "cwd", "action_bad_outdent.m6r">> :> File("Action: DoSomething\n    First line correct\n   Bad outdent level\n    Back to correct")) @@
    (<<"/", "cwd", "wildcard_embed.m6r">> :> File("Role: Test\n    Description\nContext: Files\n    Context text\n    Embed: test*.txt")) @@
    (<<"/", "cwd", "include_no_file.m6r">> :> File("Role: Test\n    First text\n    Include:")) @@
    (<<"/", "cwd", "embed_no_file.m6r">> :> File("Context: Test\n    First text\n    Embed:")) @@
    (<<"/", "cwd", "embed_no_matches.m6r">> :> File("Context: Test\n    First text\n    Embed: nonexistent*.txt")) @@
    (<<"/", "cwd", "embed_directory.m6r">> :> File("Context: Test\n    First text\n    Embed: /includes")) @@
    (<<"/", "cwd", "search.m6r">> :> File("Role: Test\n    Description\nInclude: included.m6r")) @@
    (<<"/", "cwd", "empty_value.m6r">> :> File("Role:\n    Description")) @@
    (<<"/", "cwd", "test1.txt">> :> File("Content 1")) @@
    (<<"/", "cwd", "test2.txt">> :> File("Content 2"))

\* the lines of a text of the disk
splitlines(text) ==
    CASE text = Disk[<<"/", "cwd", "main.m6r">>].text -> MainDoc
      [] text = Disk[<<"/", "cwd", "include.m6r">>].text -> IncludeDoc
      [] text = Disk[<<"/", "cwd", "file1.m6r">>].text -> File1Doc
      [] text = Disk[<<"/", "cwd", "file2.m6r">>].text -> File2Doc
      [] text = Disk[<<"/", "cwd", "late.m6r">>].text -> LateDoc
      [] text = Disk[<<"/", "cwd", "basic.m6r">>].text -> BasicDoc
      [] text = Disk[<<"/", "cwd", "siblings.m6r">>].text -> SiblingsDoc
      [] text = Disk[<<"/", "cwd", "self.m6r">>].text -> SelfDoc
      [] text = Disk[<<"/", "cwd", "cycle1.m6r">>].text -> Cycle1Doc
      [] text = Disk[<<"/", "cwd", "cycle2.m6r">>].text -> Cycle2Doc
      [] text = Disk[<<"/", "cwd", "cycle3.m6r">>].text -> Cycle3Doc
      [] text = Disk[<<"/", "cwd", "nested.m6r">>].text -> NestedDoc
      [] text = Disk[<<"/", "includes", "included.m6r">>].text -> IncludedDoc
      [] text = Disk[<<"/", "cwd", "bad_indent.m6r">>].text -> BadIndentDoc
      [] text = Disk[<<"/", "cwd", "action_bad_outdent.m6r">>].text -> BadOutdentDoc
      [] text = Disk[<<"/", "cwd", "wildcard_embed.m6r">>].text -> WildcardEmbedDoc
      [] text = Disk[<<"/", "cwd", "include_no_file.m6r">>].text -> IncludeNoFileDoc
      [] text = Disk[<<"/", "cwd", "embed_no_file.m6r">>].text -> EmbedNoFileDoc
      [] text = Disk[<<"/", "cwd", "embed_no_matches.m6r">>].text -> EmbedNoMatchesDoc
      [] text = Disk[<<"/", "cwd", "embed_directory.m6r">>].text -> EmbedDirectoryDoc
      [] text = Disk[<<"/", "cwd", "search.m6r">>].text -> SearchDoc
      [] text = Disk[<<"/", "cwd", "empty_value.m6r">>].text -> EmptyValueDoc
      [] text = "" -> <<>>
      [] OTHER -> <<TextLine(0, text)>>

\* the lexemes of every text of the disk
Tokenized == [path \in DOMAIN Disk |-> Lex(splitlines(Disk[path].text))]

tokenize(text) == Tokenized[CHOOSE path \in DOMAIN Disk : Disk[path].text = text]

\* pathlib.Path(filename).exists()
exists(filename) == realpath(filename) \in DOMAIN Disk

\* glob.glob(match, recursive=recurse) on this disk, in enumeration order
glob(match, recurse) ==
    CASE match = <<"test1.txt">> -> << <<"test1.txt">> >>
      [] match = <<"test*.txt">> -> << <<"test1.txt">>, <<"test2.txt">> >>
      [] match = <<"/", "includes">> -> << <<"/", "includes">> >>
      [] OTHER -> <<>>

-----------------------------------------------------------------------------
(* The lexers.  A lexer is its class, the filename it was given, its input *)
(* and the number of tokens it has delivered.  The lexer of parse()'s      *)
(* argument is lazy: its input is the variable input_text, which holds the *)
(* part of the argument lexed so far; the next token past it is any token  *)
(* the structural lexer can produce there.                                 *)

MetaphorLexer(text, filename) ==
    [class |-> "MetaphorLexer", filename |-> filename,
     input |-> tokenize(text), pos |-> 0, lazy |-> FALSE]

LazyMetaphorLexer(filename) ==
    [class |-> "MetaphorLexer", filename |-> filename,
     input |-> <<>>, pos |-> 0, lazy |-> TRUE]

\* get_language_from_file_extension: no file embedded here has a known extension
get_language(filename) == "plaintext"

EmbedLexer(text, filename) ==
    [class |-> "EmbedLexer", filename |-> filename,
     input |-> <<lx("TEXT", <<"File: ">> \o filename),
                 lx("TEXT", <<"'''", get_language(filename)>>),
                 lx("TEXT", <<text>>),
                 lx("TEXT", <<"'''">>)>>,
     pos |-> 0, lazy |-> FALSE]

\* The names an Include of the argument may give, its Embed patterns and
\* its block labels.
IncludeNames ==
    {<<"include.m6r">>, <<".", "include.m6r">>, <<"included.m6r">>,
     <<"/", "includes", "included.m6r">>, <<"file1.m6r">>, <<"nested.m6r">>,
     <<"nonexistent.m6r">>, <<"/", "includes">>, <<"test1.txt">>, <<"test.m6r">>}

EmbedPatterns ==
    {<<"test1.txt">>, <<"test*.txt">>, <<"nonexistent*.txt">>, <<"/", "includes">>}

Labels == {<<"Test">>}

Keywords == {"ROLE", "CONTEXT", "ACTION", "INCLUDE", "EMBED"}

\* The lexemes that can follow a lexeme of type last in a text ("NONE" at its
\* start): KEYWORD_TEXT is the rest of a keyword's line, so it only follows a
\* keyword.
NextLexemes(last) ==
    {k(t) : t \in Keywords \cup {"INDENT", "OUTDENT", "BAD_INDENT", "BAD_OUTDENT", "TAB"}}
      \cup {tx("text")}
      \cup (CASE last \in {"ROLE", "CONTEXT", "ACTION"} -> {kt(v) : v \in Labels}
              [] last = "INCLUDE" -> {kt(v) : v \in IncludeNames}
              [] last = "EMBED" -> {kt(v) : v \in EmbedPatterns}
              [] OTHER -> {})

LexerInput(lexer) == IF lexer.lazy THEN input_text ELSE lexer.input

\* The token of the i-th lexeme of the text of filename: at the lexeme's place,
\* or at line i for a text that is not held line by line.
TokenAt(lexeme, filename, i) ==
    LET line == IF lexeme.line = 0 THEN i ELSE lexeme.line
        column == IF lexeme.column = 0 THEN 1 ELSE lexeme.column
    IN  Token(lexeme.type, lexeme.value, SourceLine(filename, line), filename, line, column)

Stamp(lexer, lexeme) == TokenAt(lexeme, lexer.filename, lexer.pos + 1)

LexerEOF(lexer) ==
    Token("END_OF_FILE", <<>>, <<>>, lexer.filename, lexer.pos + 1, 1)

\* a lexer that makes one empty TEXT of an empty input
LexerNextTokens_empty_line(lexer) ==
    LET input == LexerInput(lexer) IN
    IF lexer.pos < Len(input) THEN {Stamp(lexer, input[lexer.pos + 1])}
    ELSE IF lexer.lazy /\ Len(input) < MaxTokens
    THEN {Stamp(lexer, x) :
            x \in NextLexemes(IF input = <<>> THEN "NONE" ELSE input[Len(input)].type)}
         \cup {LexerEOF(lexer)}
    ELSE IF input = <<>> /\ lexer.pos = 0 THEN {Stamp(lexer, tx(""))}
    ELSE {LexerEOF(lexer)}

\* lexer.get_next_token(): the tokens the call can return
LexerNextTokens(lexer) ==
    LET input == LexerInput(lexer) IN
    IF lexer.pos < Len(input) THEN {Stamp(lexer, input[lexer.pos + 1])}
    ELSE IF lexer.lazy /\ Len(input) < MaxTokens
    THEN {Stamp(lexer, x) :
            x \in NextLexemes(IF input = <<>> THEN "NONE" ELSE input[Len(input)].type)}
         \cup {LexerEOF(lexer)}
    ELSE {LexerEOF(lexer)}

-----------------------------------------------------------------------------
(* MetaphorASTNode and the preamble.                                       *)

preamble ==
    <<
      "The following is written in a language called Metaphor.",
      "",
      "Metaphor has the structure of a document tree with branches and leaves being prefixed",
      "by the keywords \"Role:\", \"Context:\" or \"Action:\".  Each of these indicates the",
      "start of a new block of information.",
      "",
      "Blocks have an optional section name that will immediately follow them on the same line.",
      "If this is missing then the section name is not defined.",
      "",
      "After a keyword line there may be one or more lines of text that will describe the purpose",
      "of that block.  A block may also include one or more optional child blocks inside them and",
      "that further clarify their parent block.",
      "",
      "The indentation of the blocks indicates where in the tree the pieces appear.  For example a",
      "\"Context:\" indented by 8 spaces is a child of the context above it that is indented by 4",
      "spaces.  One indented 12 spaces would be a child of the block above it that is indented by",
      "8 spaces.",
      "",
      "If you are presented with code or document fragments inside a block delimited by 3",
      "backticks then please pay close attention to the indentation level of the opening set of",
      "backticks.  Please remove this amount of whitespace from the start of each line of the",
      "enclosed text.  In the following example, even though \"text line 1\" is indented by",
      "4 spaces, you should remove these 4 spaces because the backticks are also indented by",
      "4 spaces.  You should also remove 4 spaces from \"text line 2\" because of this",
      "backtick indentation, but leave the remaining 2 spaces:",
      "    '''plaintext",
      "    text line 1",
      "      text line 2",
      "    '''",
      "If a \"Role:\" block exists then this is the role you should fulfil.",
      "",
      "\"Context:\" blocks provide context necessary to understand what you will be asked to do.",
      "",
      "An \"Action:\" block describes the task I would like you to do.",
      "",
      "When you process the actions please carefully ensure you do all of them accurately.  These",
      "need to fulfil all the details described in the \"Context:\".  Ensure you complete all the",
      "elements and do not include any placeholders.",
      ""
    >>


MetaphorASTNode(node_type, value) ==
    [node_type |-> node_type, value |-> value, parent |-> 0, children |-> <<>>]

syntax_tree == 1

\* an attach_child that puts the child before its siblings
attach_child_first(ns, parent, child) ==
    [ns EXCEPT ![child].parent = parent, ![parent].children = <<child>> \o @]

\* parent.attach_child(child) on the objects ns
attach_child(ns, parent, child) ==
    [ns EXCEPT ![child].parent = parent,
               ![parent].children = Append(@, child)]

\* list.remove(x): the sequence without the first x
remove(s, x) ==
    LET i == CHOOSE i \in 1..Len(s) : s[i] = x /\ \A j \in 1..(i - 1) : s[j] # x
    IN  SubSeq(s, 1, i - 1) \o SubSeq(s, i + 1, Len(s))

\* x in s
in(x, s) == \E i \in 1..Len(s) : s[i] = x

\* parent.detach_child(child) on the objects ns
detach_child(ns, parent, child) ==
    IF ~in(child, ns[parent].children)
    THEN [raised |-> TRUE, nodes |-> ns]
    ELSE [raised |-> FALSE,
          nodes |-> [ns EXCEPT ![parent].children = remove(@, child),
                               ![child].parent = 0]]

\* node.children as it would be with no copy: the node's own list object
children_own_list(ns, node) ==
    [object |-> node, of |-> node, items |-> ns[node].children, changed |-> FALSE]

\* node.children: a list object of its own (object 0) with the items of
\* self._children at the call
children(ns, node) ==
    [object |-> 0, of |-> node, items |-> ns[node].children, changed |-> FALSE]

\* _insert_preamble_text for every line of the preamble, in order: the objects
\* ns with one TEXT node per line, each attached to the root after the last
generate_preamble(ns) ==
    [i \in 1..(Len(ns) + Len(preamble)) |->
        IF i > Len(ns)
        THEN [MetaphorASTNode("TEXT", <<preamble[i - Len(ns)]>>) EXCEPT !.parent = syntax_tree]
        ELSE IF i = syntax_tree
        THEN [ns[i] EXCEPT !.children = @ \o [j \in 1..Len(preamble) |-> Len(ns) + j]]
        ELSE ns[i]]

-----------------------------------------------------------------------------
(* Errors and the file helpers of MetaphorParser.                          *)

MetaphorParserSyntaxError(message, filename, line, column, input) ==
    [message |-> message, filename |-> filename, line |-> line, column |-> column,
     input_text |-> input]

\* a list that takes its new entry at the front
record_syntax_error_prepends(errors, token, message) ==
    <<MetaphorParserSyntaxError(message, token.filename, token.line, token.column, token.input)>>
        \o errors

\* _record_syntax_error(token, message) on the error list errors
record_syntax_error(errors, token, message) ==
    Append(errors,
           MetaphorParserSyntaxError(message, token.filename, token.line, token.column, token.input))

\* _check_file_not_loaded: whether it raises, and the set it leaves
check_file_not_loaded(seen, filename) ==
    LET canonical_filename == realpath(filename) IN
    IF canonical_filename \in seen
    THEN [raised |-> TRUE, seen |-> seen]
    ELSE [raised |-> FALSE, seen |-> seen \cup {canonical_filename}]

\* _find_file_path: the first search path, from index i on, under which
\* filename exists (<<>> when there is none)
RECURSIVE try_search_paths(_, _, _)
try_search_paths(paths, filename, i) ==
    IF i > Len(paths) THEN <<>>
    ELSE IF exists(join(paths[i], filename)) THEN join(paths[i], filename)
    ELSE try_search_paths(paths, filename, i + 1)

\* _find_file_path that tries the search paths before the name as given
find_file_path_search_first(paths, filename) ==
    LET try_name == IF isabs(filename) THEN <<>> ELSE try_search_paths(paths, filename, 1) IN
    IF try_name # <<>> THEN [raised |-> FALSE, path |-> try_name]
    ELSE IF exists(filename) THEN [raised |-> FALSE, path |-> filename]
    ELSE [raised |-> TRUE, path |-> <<>>]

find_file_path(paths, filename) ==
    LET try_name == IF isabs(filename) THEN <<>> ELSE try_search_paths(paths, filename, 1) IN
    IF exists(filename) THEN [raised |-> FALSE, path |-> filename]
    ELSE IF try_name # <<>> THEN [raised |-> FALSE, path |-> try_name]
    ELSE [raised |-> TRUE, path |-> <<>>]

\* _read_file: the text, or the message of the FileNotFoundError it raises
read_file(filename) ==
    LET path == realpath(filename) IN
    IF path \notin DOMAIN Disk
    THEN [raised |-> TRUE, text |-> "", message |-> <<"File not found: ">> \o filename]
    ELSE IF Disk[path].kind = "dir"
    THEN [raised |-> TRUE, text |-> "", message |-> <<"Is a directory: ">> \o filename]
    ELSE [raised |-> FALSE, text |-> Disk[path].text, message |-> <<>>]

-----------------------------------------------------------------------------
(* The call stack.                                                         *)

NoToken == Token("NONE", <<>>, <<>>, <<>>, 0, 0)

Frame(fn, pc, token) ==
    [fn |-> fn, pc |-> pc, token |-> token, label_name |-> <<>>, node |-> 0,
     seen_token_type |-> "NONE", seen_action_tree |-> FALSE,
     seen_context_tree |-> FALSE, seen_role_tree |-> FALSE]

top == stack[Len(stack)]

Running(fn, pc) == stack # <<>> /\ top.fn = fn /\ top.pc = pc

\* the stack with its innermost frame replaced by frame, then frames pushed
Resume(frame, frames) == SubSeq(stack, 1, Len(stack) - 1) \o <<frame>> \o frames

\* the innermost call returns
Return == SubSeq(stack, 1, Len(stack) - 1)

GetNextTokenFrame == Frame("get_next_token", "loop", NoToken)

ReturnsToken(token) == [token |-> token, node |-> 0]
ReturnsNode(node) == [token |-> NoToken, node |-> node]
ReturnsNone == [token |-> NoToken, node |-> 0]

SearchPathLists == {<<>>, << <<"/", "includes">> >>}
ParseFilenames == {<<"test.m6r">>}
ParseFileFilenames ==
    {<<"main.m6r">>, <<"file1.m6r">>, <<"self.m6r">>, <<"cycle1.m6r">>,
     <<"late.m6r">>, <<"basic.m6r">>, <<"siblings.m6r">>, <<"nonexistent.m6r">>,
     <<"bad_indent.m6r">>, <<"action_bad_outdent.m6r">>}

\* previously_seen_files kept on the class, one set for every instance
InstanceAttributes_seen_files_on_class ==
    {"syntax_tree", "parse_errors", "lexers", "search_paths", "current_token"}

\* MetaphorParser.__init__: the attributes every instance sets on itself
InstanceAttributes ==
    {"syntax_tree", "parse_errors", "lexers", "previously_seen_files",
     "search_paths", "current_token"}

\* A MetaphorParser just constructed, with the state of the thread that
\* will run it: no frame, nothing returned, no history.
MetaphorParser(id) ==
    [id |-> id,
     nodes |-> <<MetaphorASTNode("ROOT", <<>>)>>,
     parse_errors |-> <<>>,
     lexers |-> <<>>,
     previously_seen_files |-> {},
     search_paths |-> <<>>,
     current_token |-> NoToken,
     stack |-> <<>>,
     ret |-> ReturnsNone,
     outcome |-> "new",
     input_text |-> <<>>,
     delivered |-> <<>>,
     included |-> <<>>]

\* no second instance
NoInstance == [id |-> 0]

Init ==
    /\ nodes = <<MetaphorASTNode("ROOT", <<>>)>>
    /\ parse_errors = <<>>
    /\ lexers = <<>>
    /\ previously_seen_files = {}
    /\ search_paths = <<>>
    /\ current_token = NoToken
    /\ stack = <<>>
    /\ ret = ReturnsNone
    /\ outcome = "new"
    /\ input_text = <<>>
    /\ delivered = <<>>
    /\ included = <<>>
    /\ other = NoInstance

-----------------------------------------------------------------------------
(* Raising.  FileNotFoundError and MetaphorParserFileAlreadyUsedError are  *)
(* raised under get_next_token and caught by parse(), which appends one    *)
(* entry and raises MetaphorParserError; parse_file() raises it again with *)
(* the same list.  Every frame between is left without running.            *)

Raises(errors) ==
    /\ parse_errors' = errors
    /\ stack' = <<>>
    /\ ret' = ReturnsNone
    /\ outcome' = "MetaphorParserError"

\* except FileNotFoundError as e, in parse()
FileNotFoundEntry(message) ==
    MetaphorParserSyntaxError(message, current_token.filename,
                              current_token.line, current_token.column, current_token.input)

\* except MetaphorParserFileAlreadyUsedError as e, in parse(); e.token is the
\* current token at the raise
FileAlreadyUsedEntry(filename, token) ==
    MetaphorParserSyntaxError(<<"The file '">> \o filename \o <<"' has already been used">>,
                              token.filename, token.line, token.column, token.input)

-----------------------------------------------------------------------------
(* The entry points.                                                       *)

\* parse(), up to its first call of get_next_token
ParseBegins(lexer, paths) ==
    /\ search_paths' = paths
    /\ lexers' = Append(lexers, lexer)
    /\ nodes' = generate_preamble(nodes)
    /\ stack' = <<Frame("parse", "token", NoToken), GetNextTokenFrame>>
    /\ outcome' = "running"

parse(filename, paths) ==
    /\ outcome = "new"
    /\ ParseBegins(LazyMetaphorLexer(filename), paths)
    /\ UNCHANGED <<parse_errors, previously_seen_files, current_token, ret,
                   input_text, delivered, included, other>>

parse_file(filename, paths) ==
    /\ outcome = "new"
    /\ ~check_file_not_loaded(previously_seen_files, filename).raised
    /\ ~read_file(filename).raised
    /\ previously_seen_files' = check_file_not_loaded(previously_seen_files, filename).seen
    /\ ParseBegins(MetaphorLexer(read_file(filename).text, filename), paths)
    /\ UNCHANGED <<parse_errors, current_token, ret, input_text, delivered, included, other>>

\* except FileNotFoundError as e, in parse_file()
parse_file_FileNotFoundError(filename, paths) ==
    /\ outcome = "new"
    /\ ~check_file_not_loaded(previously_seen_files, filename).raised
    /\ read_file(filename).raised
    /\ previously_seen_files' = check_file_not_loaded(previously_seen_files, filename).seen
    /\ Raises(Append(parse_errors,
                     MetaphorParserSyntaxError(read_file(filename).message, <<>>, 0, 0, <<>>)))
    /\ UNCHANGED <<nodes, lexers, search_paths, current_token, input_text, delivered, included, other>>

-----------------------------------------------------------------------------
(* get_next_token: one action per turn of its loop.                        *)

\* the lexer stack once its top lexer has delivered a token
Advance == [lexers EXCEPT ![Len(lexers)].pos = @ + 1]

\* the argument lexed so far, once its lexer has delivered token
Lexed(token) ==
    LET lexer == lexers[Len(lexers)] IN
    IF lexer.lazy /\ lexer.pos = Len(input_text) /\ token.type # "END_OF_FILE"
    THEN Append(input_text, lx(token.type, token.value))
    ELSE input_text

\* token.type == TokenType.INCLUDE: _parse_include(), up to its call of
\* get_next_token.  The frame of the handler keeps the directive's token, which
\* the handler itself never sees, as a record of where the directive is.
get_next_token_include ==
    /\ Running("get_next_token", "loop")
    /\ lexers # <<>>
    /\ \E token \in LexerNextTokens(lexers[Len(lexers)]) :
          /\ token.type = "INCLUDE"
          /\ current_token' = token
          /\ input_text' = Lexed(token)
    /\ lexers' = Advance
    /\ stack' = Resume(top, <<Frame("parse_include", "token_next", current_token'),
                              GetNextTokenFrame>>)
    /\ UNCHANGED <<nodes, parse_errors, previously_seen_files, search_paths, ret,
                   outcome, delivered, included, other>>

\* token.type == TokenType.EMBED: _parse_embed(), up to its call of
\* get_next_token
get_next_token_embed ==
    /\ Running("get_next_token", "loop")
    /\ lexers # <<>>
    /\ \E token \in LexerNextTokens(lexers[Len(lexers)]) :
          /\ token.type = "EMBED"
          /\ current_token' = token
          /\ input_text' = Lexed(token)
    /\ lexers' = Advance
    /\ stack' = Resume(top, <<Frame("parse_embed", "token_next", current_token'),
                              GetNextTokenFrame>>)
    /\ UNCHANGED <<nodes, parse_errors, previously_seen_files, search_paths, ret,
                   outcome, delivered, included, other>>

\* a get_next_token that hands the END_OF_FILE of an exhausted lexer to its
\* caller
get_next_token_end_of_file_returned ==
    /\ Running("get_next_token", "loop")
    /\ lexers # <<>>
    /\ \E token \in LexerNextTokens(lexers[Len(lexers)]) :
          /\ token.type = "END_OF_FILE"
          /\ current_token' = token
          /\ ret' = ReturnsToken(token)
          /\ delivered' = Append(delivered, token)
    /\ lexers' = SubSeq(lexers, 1, Len(lexers) - 1)
    /\ stack' = Return
    /\ UNCHANGED <<nodes, parse_errors, previously_seen_files, search_paths,
                   outcome, input_text, included, other>>

\* token.type == TokenType.END_OF_FILE: self.lexers.pop()
get_next_token_end_of_file ==
    /\ Running("get_next_token", "loop")
    /\ lexers # <<>>
    /\ \E token \in LexerNextTokens(lexers[Len(lexers)]) :
          /\ token.type = "END_OF_FILE"
          /\ current_token' = token
    /\ lexers' = SubSeq(lexers, 1, Len(lexers) - 1)
    /\ UNCHANGED <<nodes, parse_errors, previously_seen_files, search_paths, stack,
                   ret, outcome, input_text, delivered, included, other>>

\* a get_next_token that hands an Include: token to its caller
get_next_token_return_include ==
    /\ Running("get_next_token", "loop")
    /\ lexers # <<>>
    /\ \E token \in LexerNextTokens(lexers[Len(lexers)]) :
          /\ token.type \notin {"EMBED", "END_OF_FILE"}
          /\ current_token' = token
          /\ input_text' = Lexed(token)
          /\ ret' = ReturnsToken(token)
          /\ delivered' = Append(delivered, token)
    /\ lexers' = Advance
    /\ stack' = Return
    /\ UNCHANGED <<nodes, parse_errors, previously_seen_files, search_paths, outcome, included, other>>

\* else: return token
get_next_token_return ==
    /\ Running("get_next_token", "loop")
    /\ lexers # <<>>
    /\ \E token \in LexerNextTokens(lexers[Len(lexers)]) :
          /\ token.type \notin {"INCLUDE", "EMBED", "END_OF_FILE"}
          /\ current_token' = token
          /\ input_text' = Lexed(token)
          /\ ret' = ReturnsToken(token)
          /\ delivered' = Append(delivered, token)
    /\ lexers' = Advance
    /\ stack' = Return
    /\ UNCHANGED <<nodes, parse_errors, previously_seen_files, search_paths, outcome, included, other>>

\* a get_next_token that makes its END_OF_FILE the current token
get_next_token_empty_current ==
    /\ Running("get_next_token", "loop")
    /\ lexers = <<>>
    /\ ret' = ReturnsToken(Token("END_OF_FILE", <<>>, <<>>, <<>>, 0, 0))
    /\ delivered' = Append(delivered, Token("END_OF_FILE", <<>>, <<>>, <<>>, 0, 0))
    /\ current_token' = Token("END_OF_FILE", <<>>, <<>>, <<>>, 0, 0)
    /\ stack' = Return
    /\ UNCHANGED <<nodes, parse_errors, lexers, previously_seen_files, search_paths,
                   outcome, input_text, included, other>>

\* the stack is empty: return Token(TokenType.END_OF_FILE, "", "", "", 0, 0)
get_next_token_empty ==
    /\ Running("get_next_token", "loop")
    /\ lexers = <<>>
    /\ ret' = ReturnsToken(Token("END_OF_FILE", <<>>, <<>>, <<>>, 0, 0))
    /\ delivered' = Append(delivered, Token("END_OF_FILE", <<>>, <<>>, <<>>, 0, 0))
    /\ stack' = Return
    /\ UNCHANGED <<nodes, parse_errors, lexers, previously_seen_files, search_paths,
                   current_token, outcome, input_text, included, other>>

-----------------------------------------------------------------------------
(* _parse_include, from the return of its get_next_token.                  *)

\* token_next.type != TokenType.KEYWORD_TEXT: record the error and return
parse_include_no_filename ==
    /\ Running("parse_include", "token_next")
    /\ ret.token.type # "KEYWORD_TEXT"
    /\ parse_errors' = record_syntax_error(parse_errors, ret.token,
                                           <<"Expected file name for 'Include'">>)
    /\ stack' = Return
    /\ ret' = ReturnsNone
    /\ UNCHANGED <<nodes, lexers, previously_seen_files, search_paths, current_token,
                   outcome, input_text, delivered, included, other>>

\* _check_file_not_loaded raises MetaphorParserFileAlreadyUsedError
parse_include_already_used ==
    /\ Running("parse_include", "token_next")
    /\ ret.token.type = "KEYWORD_TEXT"
    /\ check_file_not_loaded(previously_seen_files, ret.token.value).raised
    /\ Raises(Append(parse_errors, FileAlreadyUsedEntry(ret.token.value, current_token)))
    /\ UNCHANGED <<nodes, lexers, previously_seen_files, search_paths, current_token,
                   input_text, delivered, included, other>>

\* an Include for which a missing file is one more recorded error
parse_include_not_found_recorded ==
    /\ Running("parse_include", "token_next")
    /\ ret.token.type = "KEYWORD_TEXT"
    /\ LET filename == ret.token.value
           loaded == check_file_not_loaded(previously_seen_files, filename)
           try_file == find_file_path(search_paths, filename)
       IN  /\ ~loaded.raised
           /\ try_file.raised \/ read_file(try_file.path).raised
           /\ previously_seen_files' = loaded.seen
           /\ parse_errors' =
                 Append(parse_errors,
                        FileNotFoundEntry(IF try_file.raised
                                          THEN <<"File not found: ">> \o filename
                                          ELSE read_file(try_file.path).message))
    /\ stack' = Return
    /\ ret' = ReturnsNone
    /\ UNCHANGED <<nodes, lexers, search_paths, current_token, outcome, input_text,
                   delivered, included, other>>

\* _find_file_path or _read_file raises FileNotFoundError
parse_include_not_found ==
    /\ Running("parse_include", "token_next")
    /\ ret.token.type = "KEYWORD_TEXT"
    /\ LET filename == ret.token.value
           loaded == check_file_not_loaded(previously_seen_files, filename)
           try_file == find_file_path(search_paths, filename)
       IN  /\ ~loaded.raised
           /\ try_file.raised \/ read_file(try_file.path).raised
           /\ previously_seen_files' = loaded.seen
           /\ Raises(Append(parse_errors,
                            FileNotFoundEntry(IF try_file.raised
                                              THEN <<"File not found: ">> \o filename
                                              ELSE read_file(try_file.path).message)))
    /\ UNCHANGED <<nodes, lexers, search_paths, current_token, input_text, delivered, included, other>>

\* an Include that puts the new lexer under the lexers already there
parse_include_push_below ==
    /\ Running("parse_include", "token_next")
    /\ ret.token.type = "KEYWORD_TEXT"
    /\ LET filename == ret.token.value
           loaded == check_file_not_loaded(previously_seen_files, filename)
           try_file == find_file_path(search_paths, filename)
       IN  /\ ~loaded.raised
           /\ ~try_file.raised
           /\ ~read_file(try_file.path).raised
           /\ previously_seen_files' = loaded.seen
           /\ lexers' = <<MetaphorLexer(read_file(try_file.path).text, try_file.path)>>
                          \o lexers
           /\ included' = Append(included, realpath(try_file.path))
    /\ stack' = Return
    /\ ret' = ReturnsNone
    /\ UNCHANGED <<nodes, parse_errors, search_paths, current_token, outcome,
                   input_text, delivered, other>>

\* parse_include_push whose lexer has the name written in the directive
parse_include_push_as_written ==
    /\ Running("parse_include", "token_next")
    /\ ret.token.type = "KEYWORD_TEXT"
    /\ LET filename == ret.token.value
           loaded == check_file_not_loaded(previously_seen_files, filename)
           try_file == find_file_path(search_paths, filename)
       IN  /\ ~loaded.raised
           /\ ~try_file.raised
           /\ ~read_file(try_file.path).raised
           /\ previously_seen_files' = loaded.seen
           /\ lexers' = Append(lexers,
                               MetaphorLexer(read_file(try_file.path).text, filename))
           /\ included' = Append(included, realpath(try_file.path))
    /\ stack' = Return
    /\ ret' = ReturnsNone
    /\ UNCHANGED <<nodes, parse_errors, search_paths, current_token, outcome,
                   input_text, delivered, other>>

\* self.lexers.append(MetaphorLexer(input_text, try_file))
parse_include_push ==
    /\ Running("parse_include", "token_next")
    /\ ret.token.type = "KEYWORD_TEXT"
    /\ LET filename == ret.token.value
           loaded == check_file_not_loaded(previously_seen_files, filename)
           try_file == find_file_path(search_paths, filename)
       IN  /\ ~loaded.raised
           /\ ~try_file.raised
           /\ ~read_file(try_file.path).raised
           /\ previously_seen_files' = loaded.seen
           /\ lexers' = Append(lexers,
                               MetaphorLexer(read_file(try_file.path).text, try_file.path))
           /\ included' = Append(included, realpath(try_file.path))
    /\ stack' = Return
    /\ ret' = ReturnsNone
    /\ UNCHANGED <<nodes, parse_errors, search_paths, current_token, outcome,
                   input_text, delivered, other>>

-----------------------------------------------------------------------------
(* _parse_embed, from the return of its get_next_token.                    *)

\* "**/" in match
recursive_match(match) == \E i \in 1..(Len(match) - 1) : match[i] = "**"

\* for file in files: read it and push its EmbedLexer, from files[i] on; stops
\* at the first file that cannot be read
RECURSIVE embed_files(_, _, _)
embed_files(ls, files, i) ==
    IF i > Len(files) THEN [raised |-> FALSE, lexers |-> ls, message |-> <<>>]
    ELSE IF read_file(files[i]).raised
    THEN [raised |-> TRUE, lexers |-> ls, message |-> read_file(files[i]).message]
    ELSE embed_files(Append(ls, EmbedLexer(read_file(files[i]).text, files[i])),
                     files, i + 1)

parse_embed_no_filename ==
    /\ Running("parse_embed", "token_next")
    /\ ret.token.type # "KEYWORD_TEXT"
    /\ parse_errors' = record_syntax_error(parse_errors, ret.token,
                           <<"Expected file name or wildcard match for 'Embed'">>)
    /\ stack' = Return
    /\ ret' = ReturnsNone
    /\ UNCHANGED <<nodes, lexers, previously_seen_files, search_paths, current_token,
                   outcome, input_text, delivered, included, other>>

\* an Embed for which a pattern without a match is fatal
parse_embed_no_match_raises ==
    /\ Running("parse_embed", "token_next")
    /\ ret.token.type = "KEYWORD_TEXT"
    /\ glob(ret.token.value, recursive_match(ret.token.value)) = <<>>
    /\ Raises(record_syntax_error(parse_errors, ret.token,
                  ret.token.value \o <<" does not match any files for 'Embed'">>))
    /\ UNCHANGED <<nodes, lexers, previously_seen_files, search_paths, current_token,
                   input_text, delivered, included, other>>

parse_embed_no_match ==
    /\ Running("parse_embed", "token_next")
    /\ ret.token.type = "KEYWORD_TEXT"
    /\ glob(ret.token.value, recursive_match(ret.token.value)) = <<>>
    /\ parse_errors' = record_syntax_error(parse_errors, ret.token,
                           ret.token.value \o <<" does not match any files for 'Embed'">>)
    /\ stack' = Return
    /\ ret' = ReturnsNone
    /\ UNCHANGED <<nodes, lexers, previously_seen_files, search_paths, current_token,
                   outcome, input_text, delivered, included, other>>

\* an Embed that checks and notes its files as an Include does
parse_embed_push_checked ==
    /\ Running("parse_embed", "token_next")
    /\ ret.token.type = "KEYWORD_TEXT"
    /\ LET files == glob(ret.token.value, recursive_match(ret.token.value))
           pushed == embed_files(lexers, files, 1)
       IN  /\ files # <<>>
           /\ ~pushed.raised
           /\ \A i \in 1..Len(files) : realpath(files[i]) \notin previously_seen_files
           /\ previously_seen_files' =
                 previously_seen_files \cup {realpath(files[i]) : i \in 1..Len(files)}
           /\ lexers' = pushed.lexers
    /\ stack' = Return
    /\ ret' = ReturnsNone
    /\ UNCHANGED <<nodes, parse_errors, search_paths,
                   current_token, outcome, input_text, delivered, included, other>>

parse_embed_push ==
    /\ Running("parse_embed", "token_next")
    /\ ret.token.type = "KEYWORD_TEXT"
    /\ LET files == glob(ret.token.value, recursive_match(ret.token.value))
           pushed == embed_files(lexers, files, 1)
       IN  /\ files # <<>>
           /\ ~pushed.raised
           /\ lexers' = pushed.lexers
    /\ stack' = Return
    /\ ret' = ReturnsNone
    /\ UNCHANGED <<nodes, parse_errors, previously_seen_files, search_paths,
                   current_token, outcome, input_text, delivered, included, other>>

\* _read_file raises FileNotFoundError for one of the files
parse_embed_not_found ==
    /\ Running("parse_embed", "token_next")
    /\ ret.token.type = "KEYWORD_TEXT"
    /\ LET files == glob(ret.token.value, recursive_match(ret.token.value))
           pushed == embed_files(lexers, files, 1)
       IN  /\ files # <<>>
           /\ pushed.raised
           /\ lexers' = pushed.lexers
           /\ Raises(Append(parse_errors, FileNotFoundEntry(pushed.message)))
    /\ UNCHANGED <<nodes, previously_seen_files, search_paths, current_token,
                   input_text, delivered, included, other>>

-----------------------------------------------------------------------------
(* parse(): the loop over the top-level tokens.                            *)

Kind(type) ==
    CASE type = "ACTION" -> "Action"
      [] type = "CONTEXT" -> "Context"
      [] type = "ROLE" -> "Role"

BlockParser(type) ==
    CASE type = "ACTION" -> "parse_action"
      [] type = "CONTEXT" -> "parse_context"
      [] type = "ROLE" -> "parse_role"

\* seen_action_tree, seen_context_tree or seen_role_tree of the frame
SeenTree(frame, type) ==
    CASE type = "ACTION" -> frame.seen_action_tree
      [] type = "CONTEXT" -> frame.seen_context_tree
      [] type = "ROLE" -> frame.seen_role_tree

\* a block parser is called with token, and calls get_next_token
CallBlockParser(frame, token) ==
    Resume(frame, <<Frame(BlockParser(token.type), "init_token", token),
                    GetNextTokenFrame>>)

\* a parse_section that looks for duplicates within the top-level file only
parse_section_same_file ==
    /\ Running("parse", "token")
    /\ ret.token.type \in {"ACTION", "CONTEXT", "ROLE"}
    /\ parse_errors' =
          IF SeenTree(top, ret.token.type) /\ ret.token.filename = lexers[1].filename
          THEN record_syntax_error(parse_errors, ret.token,
                                   <<"'", Kind(ret.token.type), "' already defined">>)
          ELSE parse_errors
    /\ stack' = CallBlockParser([top EXCEPT !.pc = "attach"], ret.token)
    /\ ret' = ReturnsNone
    /\ UNCHANGED <<nodes, lexers, previously_seen_files, search_paths, current_token,
                   outcome, input_text, delivered, included, other>>

\* parse_section without the check for a section seen before
parse_section_unchecked ==
    /\ Running("parse", "token")
    /\ ret.token.type \in {"ACTION", "CONTEXT", "ROLE"}
    /\ stack' = CallBlockParser([top EXCEPT !.pc = "attach"], ret.token)
    /\ ret' = ReturnsNone
    /\ UNCHANGED <<nodes, parse_errors, lexers, previously_seen_files, search_paths,
                   current_token, outcome, input_text, delivered, included, other>>

\* ACTION, CONTEXT or ROLE: record the duplicate, call the block parser
parse_section ==
    /\ Running("parse", "token")
    /\ ret.token.type \in {"ACTION", "CONTEXT", "ROLE"}
    /\ parse_errors' =
          IF SeenTree(top, ret.token.type)
          THEN record_syntax_error(parse_errors, ret.token,
                                   <<"'", Kind(ret.token.type), "' already defined">>)
          ELSE parse_errors
    /\ stack' = CallBlockParser([top EXCEPT !.pc = "attach"], ret.token)
    /\ ret' = ReturnsNone
    /\ UNCHANGED <<nodes, lexers, previously_seen_files, search_paths, current_token,
                   outcome, input_text, delivered, included, other>>

\* parse_attach with the flag of the Role branch mistaken for that of Action
parse_attach_wrong_flag ==
    /\ Running("parse", "attach")
    /\ nodes' = attach_child(nodes, syntax_tree, ret.node)
    /\ stack' = Resume([top EXCEPT
                          !.pc = "token",
                          !.seen_action_tree =
                              @ \/ nodes[ret.node].node_type \in {"ACTION", "ROLE"},
                          !.seen_context_tree = @ \/ nodes[ret.node].node_type = "CONTEXT"],
                       <<GetNextTokenFrame>>)
    /\ ret' = ReturnsNone
    /\ UNCHANGED <<parse_errors, lexers, previously_seen_files, search_paths,
                   current_token, outcome, input_text, delivered, included, other>>

\* self.syntax_tree.attach_child(...); seen_..._tree = True; next token
parse_attach ==
    /\ Running("parse", "attach")
    /\ nodes' = attach_child(nodes, syntax_tree, ret.node)
    /\ stack' = Resume([top EXCEPT
                          !.pc = "token",
                          !.seen_action_tree = @ \/ nodes[ret.node].node_type = "ACTION",
                          !.seen_context_tree = @ \/ nodes[ret.node].node_type = "CONTEXT",
                          !.seen_role_tree = @ \/ nodes[ret.node].node_type = "ROLE"],
                       <<GetNextTokenFrame>>)
    /\ ret' = ReturnsNone
    /\ UNCHANGED <<parse_errors, lexers, previously_seen_files, search_paths,
                   current_token, outcome, input_text, delivered, included, other>>

\* END_OF_FILE with errors: raise MetaphorParserError
parse_end_of_file_raise ==
    /\ Running("parse", "token")
    /\ ret.token.type = "END_OF_FILE"
    /\ parse_errors # <<>>
    /\ Raises(parse_errors)
    /\ UNCHANGED <<nodes, lexers, previously_seen_files, search_paths, current_token,
                   input_text, delivered, included, other>>

\* parse_end_of_file_return without the test of the error list
parse_end_of_file_return_unchecked ==
    /\ Running("parse", "token")
    /\ ret.token.type = "END_OF_FILE"
    /\ stack' = <<>>
    /\ ret' = ReturnsNode(syntax_tree)
    /\ outcome' = "returned"
    /\ UNCHANGED <<nodes, parse_errors, lexers, previously_seen_files, search_paths,
                   current_token, input_text, delivered, included, other>>

\* END_OF_FILE without errors: return self.syntax_tree
parse_end_of_file_return ==
    /\ Running("parse", "token")
    /\ ret.token.type = "END_OF_FILE"
    /\ parse_errors = <<>>
    /\ stack' = <<>>
    /\ ret' = ReturnsNode(syntax_tree)
    /\ outcome' = "returned"
    /\ UNCHANGED <<nodes, parse_errors, lexers, previously_seen_files, search_paths,
                   current_token, input_text, delivered, included, other>>

\* parse_unexpected that lets a TAB pass
parse_unexpected_skips_tab ==
    /\ Running("parse", "token")
    /\ ret.token.type \notin {"ACTION", "CONTEXT", "ROLE", "END_OF_FILE"}
    /\ parse_errors' =
          IF ret.token.type = "TAB" THEN parse_errors
          ELSE record_syntax_error(parse_errors, ret.token,
                   <<"Unexpected token: ">> \o ret.token.value \o <<" at top level">>)
    /\ stack' = Resume(top, <<GetNextTokenFrame>>)
    /\ ret' = ReturnsNone
    /\ UNCHANGED <<nodes, lexers, previously_seen_files, search_paths, current_token,
                   outcome, input_text, delivered, included, other>>

\* a top level that takes a TEXT token as content of the root
parse_unexpected_attaches_text ==
    /\ Running("parse", "token")
    /\ ret.token.type \notin {"ACTION", "CONTEXT", "ROLE", "END_OF_FILE"}
    /\ IF ret.token.type = "TEXT"
       THEN /\ nodes' = attach_child(Append(nodes, MetaphorASTNode("TEXT", ret.token.value)),
                                     syntax_tree, Len(nodes) + 1)
            /\ UNCHANGED parse_errors
       ELSE /\ parse_errors' = record_syntax_error(parse_errors, ret.token,
                                  <<"Unexpected token: ">> \o ret.token.value
                                    \o <<" at top level">>)
            /\ UNCHANGED nodes
    /\ stack' = Resume(top, <<GetNextTokenFrame>>)
    /\ ret' = ReturnsNone
    /\ UNCHANGED <<lexers, previously_seen_files, search_paths, current_token,
                   outcome, input_text, delivered, included, other>>

\* any other token: record it, next token
parse_unexpected ==
    /\ Running("parse", "token")
    /\ ret.token.type \notin {"ACTION", "CONTEXT", "ROLE", "END_OF_FILE"}
    /\ parse_errors' = record_syntax_error(parse_errors, ret.token,
                           <<"Unexpected token: ">> \o ret.token.value \o <<" at top level">>)
    /\ stack' = Resume(top, <<GetNextTokenFrame>>)
    /\ ret' = ReturnsNone
    /\ UNCHANGED <<nodes, lexers, previously_seen_files, search_paths, current_token,
                   outcome, input_text, delivered, included, other>>

-----------------------------------------------------------------------------
(* _parse_action, _parse_context and _parse_role.  The three differ in the *)
(* node type and the kind named in their messages; _parse_context also     *)
(* takes nested CONTEXT tokens and checks that text comes first.           *)

BlockParsers == {"parse_action", "parse_context", "parse_role"}

NodeType(fn) ==
    CASE fn = "parse_action" -> "ACTION"
      [] fn = "parse_context" -> "CONTEXT"
      [] fn = "parse_role" -> "ROLE"

\* MetaphorASTNode(MetaphorASTNodeType.<KIND>, label_name), then the first
\* get_next_token of the body loop
BodyBegins(frame) ==
    /\ nodes' = Append(nodes, MetaphorASTNode(NodeType(frame.fn), frame.label_name))
    /\ stack' = Resume([frame EXCEPT !.pc = "body", !.node = Len(nodes) + 1],
                       <<GetNextTokenFrame>>)
    /\ ret' = ReturnsNone

\* init_token.type == TokenType.KEYWORD_TEXT: the label, then the indent token
block_keyword_text(fn) ==
    /\ Running(fn, "init_token")
    /\ ret.token.type = "KEYWORD_TEXT"
    /\ stack' = Resume([top EXCEPT !.pc = "indent_token", !.label_name = ret.token.value],
                       <<GetNextTokenFrame>>)
    /\ ret' = ReturnsNone
    /\ UNCHANGED <<nodes, parse_errors, lexers, previously_seen_files, search_paths,
                   current_token, outcome, input_text, delivered, included, other>>

\* a header that hands a token that is no INDENT to the body loop
block_indent_token_keeps_token(fn) ==
    /\ Running(fn, "indent_token")
    /\ parse_errors' =
          IF ret.token.type # "INDENT"
          THEN record_syntax_error(parse_errors, top.token,
                   <<"Expected indent after keyword description for '",
                     Kind(NodeType(fn)), "' block">>)
          ELSE parse_errors
    /\ nodes' = Append(nodes, MetaphorASTNode(NodeType(fn), top.label_name))
    /\ IF ret.token.type # "INDENT"
       THEN /\ stack' = Resume([top EXCEPT !.pc = "body", !.node = Len(nodes) + 1], <<>>)
            /\ ret' = ret
       ELSE /\ stack' = Resume([top EXCEPT !.pc = "body", !.node = Len(nodes) + 1],
                               <<GetNextTokenFrame>>)
            /\ ret' = ReturnsNone
    /\ UNCHANGED <<lexers, previously_seen_files, search_paths, current_token,
                   outcome, input_text, delivered, included, other>>

\* block_indent_token with the message of the other branch
block_indent_token_other_message(fn) ==
    /\ Running(fn, "indent_token")
    /\ parse_errors' =
          IF ret.token.type # "INDENT"
          THEN record_syntax_error(parse_errors, top.token,
                   <<"Expected description or indent for '",
                     Kind(NodeType(fn)), "' block">>)
          ELSE parse_errors
    /\ BodyBegins(top)
    /\ UNCHANGED <<lexers, previously_seen_files, search_paths, current_token,
                   outcome, input_text, delivered, included, other>>

\* indent_token.type != TokenType.INDENT is an error; then the body
block_indent_token(fn) ==
    /\ Running(fn, "indent_token")
    /\ parse_errors' =
          IF ret.token.type # "INDENT"
          THEN record_syntax_error(parse_errors, top.token,
                   <<"Expected indent after keyword description for '",
                     Kind(NodeType(fn)), "' block">>)
          ELSE parse_errors
    /\ BodyBegins(top)
    /\ UNCHANGED <<lexers, previously_seen_files, search_paths, current_token,
                   outcome, input_text, delivered, included, other>>

\* no KEYWORD_TEXT: init_token.type != TokenType.INDENT is an error; then the body
block_no_keyword_text(fn) ==
    /\ Running(fn, "init_token")
    /\ ret.token.type # "KEYWORD_TEXT"
    /\ parse_errors' =
          IF ret.token.type # "INDENT"
          THEN record_syntax_error(parse_errors, top.token,
                   <<"Expected description or indent for '",
                     Kind(NodeType(fn)), "' block">>)
          ELSE parse_errors
    /\ BodyBegins(top)
    /\ UNCHANGED <<lexers, previously_seen_files, search_paths, current_token,
                   outcome, input_text, delivered, included, other>>

\* _parse_text(token)
parse_text(token) == MetaphorASTNode("TEXT", token.value)

\* a test for late text that never finds any
text_is_late_never(frame) == FALSE

\* seen_token_type != TokenType.NONE, which only _parse_context tests
text_is_late(frame) == frame.fn = "parse_context" /\ frame.seen_token_type # "NONE"

\* TEXT in a body: attach it; in a Context after a nested Context, an error
block_text(fn) ==
    /\ Running(fn, "body")
    /\ ret.token.type = "TEXT"
    /\ parse_errors' =
          IF text_is_late(top)
          THEN record_syntax_error(parse_errors, ret.token,
                                   <<"Text must come first in a 'Context' block">>)
          ELSE parse_errors
    /\ nodes' = attach_child(Append(nodes, parse_text(ret.token)), top.node, Len(nodes) + 1)
    /\ stack' = Resume(top, <<GetNextTokenFrame>>)
    /\ ret' = ReturnsNone
    /\ UNCHANGED <<lexers, previously_seen_files, search_paths, current_token,
                   outcome, input_text, delivered, included, other>>

\* CONTEXT in the body of a Context: self._parse_context(token)
context_nested ==
    /\ Running("parse_context", "body")
    /\ ret.token.type = "CONTEXT"
    /\ stack' = CallBlockParser([top EXCEPT !.pc = "attach"], ret.token)
    /\ ret' = ReturnsNone
    /\ UNCHANGED <<nodes, parse_errors, lexers, previously_seen_files, search_paths,
                   current_token, outcome, input_text, delivered, included, other>>

\* context_attach without seen_token_type = TokenType.CONTEXT
context_attach_unmarked ==
    /\ Running("parse_context", "attach")
    /\ nodes' = attach_child(nodes, top.node, ret.node)
    /\ stack' = Resume([top EXCEPT !.pc = "body"], <<GetNextTokenFrame>>)
    /\ ret' = ReturnsNone
    /\ UNCHANGED <<parse_errors, lexers, previously_seen_files, search_paths,
                   current_token, outcome, input_text, delivered, included, other>>

\* context_node.attach_child(...); seen_token_type = TokenType.CONTEXT
context_attach ==
    /\ Running("parse_context", "attach")
    /\ nodes' = attach_child(nodes, top.node, ret.node)
    /\ stack' = Resume([top EXCEPT !.pc = "body", !.seen_token_type = "CONTEXT"],
                       <<GetNextTokenFrame>>)
    /\ ret' = ReturnsNone
    /\ UNCHANGED <<parse_errors, lexers, previously_seen_files, search_paths,
                   current_token, outcome, input_text, delivered, included, other>>

\* a body loop that ends at OUTDENT only
block_return_outdent_only(fn) ==
    /\ Running(fn, "body")
    /\ ret.token.type = "OUTDENT"
    /\ stack' = Return
    /\ ret' = ReturnsNode(top.node)
    /\ UNCHANGED <<nodes, parse_errors, lexers, previously_seen_files, search_paths,
                   current_token, outcome, input_text, delivered, included, other>>

\* OUTDENT or END_OF_FILE: return the block's node
block_return(fn) ==
    /\ Running(fn, "body")
    /\ ret.token.type \in {"OUTDENT", "END_OF_FILE"}
    /\ stack' = Return
    /\ ret' = ReturnsNode(top.node)
    /\ UNCHANGED <<nodes, parse_errors, lexers, previously_seen_files, search_paths,
                   current_token, outcome, input_text, delivered, included, other>>

\* the tokens a body takes without an error
BodyTokens(fn) ==
    {"TEXT", "OUTDENT", "END_OF_FILE"} \cup (IF fn = "parse_context" THEN {"CONTEXT"} ELSE {})

\* block_unexpected that ends the block at the token
block_unexpected_returns(fn) ==
    /\ Running(fn, "body")
    /\ ret.token.type \notin BodyTokens(fn)
    /\ parse_errors' = record_syntax_error(parse_errors, ret.token,
                           <<"Unexpected token: ">> \o ret.token.value
                             \o <<" in '", Kind(NodeType(fn)), "' block">>)
    /\ stack' = Return
    /\ ret' = ReturnsNode(top.node)
    /\ UNCHANGED <<nodes, lexers, previously_seen_files, search_paths, current_token,
                   outcome, input_text, delivered, included, other>>

\* any other token in a body: record it, next token
block_unexpected(fn) ==
    /\ Running(fn, "body")
    /\ ret.token.type \notin BodyTokens(fn)
    /\ parse_errors' = record_syntax_error(parse_errors, ret.token,
                           <<"Unexpected token: ">> \o ret.token.value
                             \o <<" in '", Kind(NodeType(fn)), "' block">>)
    /\ stack' = Resume(top, <<GetNextTokenFrame>>)
    /\ ret' = ReturnsNone
    /\ UNCHANGED <<nodes, lexers, previously_seen_files, search_paths, current_token,
                   outcome, input_text, delivered, included, other>>

-----------------------------------------------------------------------------

Next ==
    \/ \E filename \in ParseFilenames, paths \in SearchPathLists : parse(filename, paths)
    \/ \E filename \in ParseFileFilenames, paths \in SearchPathLists :
          parse_file(filename, paths)
    \/ \E filename \in ParseFileFilenames, paths \in SearchPathLists :
          parse_file_FileNotFoundError(filename, paths)
    \/ get_next_token_include
    \/ get_next_token_embed
    \/ get_next_token_end_of_file
    \/ get_next_token_return
    \/ get_next_token_empty
    \/ parse_include_no_filename
    \/ parse_include_already_used
    \/ parse_include_not_found
    \/ parse_include_push
    \/ parse_embed_no_filename
    \/ parse_embed_no_match
    \/ parse_embed_push
    \/ parse_embed_not_found
    \/ parse_section
    \/ parse_attach
    \/ parse_end_of_file_raise
    \/ parse_end_of_file_return
    \/ parse_unexpected
    \/ \E fn \in BlockParsers : block_keyword_text(fn)
    \/ \E fn \in BlockParsers : block_indent_token(fn)
    \/ \E fn \in BlockParsers : block_no_keyword_text(fn)
    \/ \E fn \in BlockParsers : block_text(fn)
    \/ context_nested
    \/ context_attach
    \/ \E fn \in BlockParsers : block_return(fn)
    \/ \E fn \in BlockParsers : block_unexpected(fn)

Spec == Init /\ [][Next]_vars

\* The single thread of the program runs the parse to its end.
FairSpec == Spec /\ WF_vars(Next)

-----------------------------------------------------------------------------
(* What the claims speak of.                                               *)

RootChildren == nodes[syntax_tree].children

\* the number of nodes of type node_type in the list
CountType(list, node_type) ==
    Cardinality({i \in 1..Len(list) : nodes[list[i]].node_type = node_type})

\* the number of entries of errors with the message
CountMessage(errors, message) ==
    Cardinality({i \in 1..Len(errors) : errors[i].message = message})

IsPrefix(s, t) == Len(s) <= Len(t) /\ SubSeq(t, 1, Len(s)) = s

Sections == {"ACTION", "CONTEXT", "ROLE"}

AlreadyDefined(type) == <<"'", Kind(type), "' already defined">>

TextMustComeFirst == <<"Text must come first in a 'Context' block">>

Ended == outcome \in {"returned", "MetaphorParserError"}

AtTopLevel == Running("parse", "token")

-----------------------------------------------------------------------------

\* C1: parse() returns the tree exactly at a top-level END_OF_FILE with an empty
\* error list; a top-level END_OF_FILE with a recorded error raises
\* MetaphorParserError and returns no tree.
C1_ReturnsIffCleanEndOfFile ==
    /\ [][(outcome' = "returned" /\ outcome # "returned")
            => (AtTopLevel /\ ret.token.type = "END_OF_FILE" /\ parse_errors = <<>>)]_vars
    /\ [][(AtTopLevel /\ ret.token.type = "END_OF_FILE")
            => IF parse_errors = <<>>
               THEN outcome' = "returned" /\ ret'.node = syntax_tree /\ parse_errors' = <<>>
               ELSE outcome' = "MetaphorParserError" /\ ret'.node = 0]_vars
    /\ [](outcome = "returned" <=> ret.node = syntax_tree)

C1_Witness ==
    /\ outcome = "MetaphorParserError"
    /\ delivered # <<>>
    /\ delivered[Len(delivered)].type = "END_OF_FILE"
    /\ Len(parse_errors) >= 2

\* C2: every MetaphorParserError carries at least one entry, and the error list
\* is only ever appended to, so its entries are in the order of detection.
C2_ErrorsNonEmptyInOrder ==
    /\ [](outcome = "MetaphorParserError" => Len(parse_errors) >= 1)
    /\ [][IsPrefix(parse_errors, parse_errors')]_vars

C2_Witness ==
    /\ outcome = "MetaphorParserError"
    /\ Len(parse_errors) >= 3
    /\ parse_errors[1].message # parse_errors[2].message

\* C3: a top-level ROLE, CONTEXT or ACTION token records "'K' already defined"
\* once, before its block is parsed, exactly when a K block is already attached
\* to ROOT; the block is parsed and attached all the same.
C3_DuplicateSections ==
    /\ [][(AtTopLevel /\ ret.token.type \in Sections)
            => /\ parse_errors' =
                    IF CountType(RootChildren, ret.token.type) >= 1
                    THEN Append(parse_errors,
                                MetaphorParserSyntaxError(AlreadyDefined(ret.token.type),
                                    ret.token.filename, ret.token.line, ret.token.column, ret.token.input))
                    ELSE parse_errors
               /\ Len(stack') = Len(stack) + 2
               /\ stack'[Len(stack) + 1].fn = BlockParser(ret.token.type)]_vars
    /\ [](AtTopLevel =>
            \A type \in Sections :
                CountMessage(parse_errors, AlreadyDefined(type)) =
                    IF CountType(RootChildren, type) = 0 THEN 0
                    ELSE CountType(RootChildren, type) - 1)

C3_Witness ==
    /\ AtTopLevel
    /\ \E type \in Sections :
          /\ CountType(RootChildren, type) >= 2
          /\ CountMessage(parse_errors, AlreadyDefined(type)) >= 1
          /\ parse_errors[Len(parse_errors)].message # AlreadyDefined(type)

C5_TextBeforeNestedContext ==
    outcome = "returned" =>
        \A n \in 1..Len(nodes) :
            nodes[n].node_type = "CONTEXT" =>
                \A i, j \in 1..Len(nodes[n].children) :
                    (i < j /\ nodes[nodes[n].children[i]].node_type = "CONTEXT")
                        => nodes[nodes[n].children[j]].node_type # "TEXT"

C5_Witness ==
    /\ outcome = "returned"
    /\ \E n \in 1..Len(nodes) :
          /\ nodes[n].node_type = "CONTEXT"
          /\ CountType(nodes[n].children, "TEXT") >= 1
          /\ CountType(nodes[n].children, "CONTEXT") >= 1

\* C6: a TEXT token in the body of a Context block records "Text must come
\* first in a 'Context' block" once exactly when that block's own node already
\* has a CONTEXT child, and is attached as the block's last child either way.
C6_LateText ==
    [][(Running("parse_context", "body") /\ ret.token.type = "TEXT")
         => /\ parse_errors' =
                 IF CountType(nodes[top.node].children, "CONTEXT") >= 1
                 THEN Append(parse_errors,
                             MetaphorParserSyntaxError(TextMustComeFirst,
                                 ret.token.filename, ret.token.line, ret.token.column, ret.token.input))
                 ELSE parse_errors
            /\ Len(nodes') = Len(nodes) + 1
            /\ nodes'[Len(nodes')] =
                 [node_type |-> "TEXT", value |-> ret.token.value,
                  parent |-> top.node, children |-> <<>>]
            /\ nodes'[top.node].children = Append(nodes[top.node].children, Len(nodes'))]_vars

\* a nested Context takes its first text after its parent has got a nested Context
C6_PerBlockCase ==
    /\ Len(stack) >= 2
    /\ top.fn = "parse_context" /\ top.pc = "body"
    /\ stack[Len(stack) - 1].fn = "parse_context"
    /\ stack[Len(stack) - 1].seen_token_type = "CONTEXT"
    /\ CountType(nodes[top.node].children, "TEXT") >= 1
    /\ CountMessage(parse_errors, TextMustComeFirst) = 0

\* an outer Context has taken a late text
C6_Witness ==
    /\ CountMessage(parse_errors, TextMustComeFirst) >= 1
    /\ \E n \in 1..Len(nodes) :
          /\ nodes[n].node_type = "CONTEXT"
          /\ Len(nodes[n].children) >= 2
          /\ nodes[nodes[n].children[Len(nodes[n].children)]].node_type = "TEXT"
          /\ nodes[nodes[n].children[Len(nodes[n].children) - 1]].node_type = "CONTEXT"

-----------------------------------------------------------------------------
(* Includes.                                                               *)

\* the files the Include directives of the file at path name, as written
IncludeEdges(path) ==
    LET doc == tokenize(Disk[path].text) IN
    {realpath(doc[i + 1].value) :
        i \in {j \in 1..(Len(doc) - 1) :
                  doc[j].type = "INCLUDE" /\ doc[j + 1].type = "KEYWORD_TEXT"}}

\* the files reached from paths through Include directives
RECURSIVE IncludeClosure(_)
IncludeClosure(paths) ==
    LET more == paths \cup UNION {IncludeEdges(p) : p \in paths \cap DOMAIN Disk} IN
    IF more = paths THEN paths ELSE IncludeClosure(more)

\* the files that include themselves, directly or through other files
CyclicFiles == {p \in DOMAIN Disk : p \in IncludeClosure(IncludeEdges(p))}

AlreadyUsed(entry) ==
    entry.message # <<>> /\ entry.message[Len(entry.message)] = "' has already been used"

StructuralLexers == {i \in 1..Len(lexers) : lexers[i].class = "MetaphorLexer"}

\* C7: once a file that lies on a cycle of Include directives is being read, the
\* parse ends with MetaphorParserError and a "has already been used" entry; the
\* structural lexers on the stack never outnumber the files seen by more than
\* the one lexer of parse()'s own argument.
C7_IncludeCycleFails ==
    /\ [](Cardinality(StructuralLexers) <= Cardinality(previously_seen_files) + 1)
    /\ (\E i \in 1..Len(lexers) : realpath(lexers[i].filename) \in CyclicFiles)
          ~> (/\ outcome = "MetaphorParserError"
              /\ \E i \in 1..Len(parse_errors) : AlreadyUsed(parse_errors[i]))

\* C8: no file is pushed as a structural lexer by two Includes of one parse,
\* whatever names the Includes give it.
C8_NoFileIncludedTwice ==
    \A i, j \in 1..Len(included) : i < j => included[i] # included[j]

-----------------------------------------------------------------------------
(* The token stream.                                                       *)

\* The stream the claim describes for the text input of the file filename,
\* from position i on, with the files in seen already used: each token in
\* order, and in place of an Include the stream of the included file.  INCLUDE
\* tokens are not part of it; the filename token after one is fetched by
\* _parse_include.  The stream stops where an Include fails.
RECURSIVE Spliced(_, _, _, _)
Spliced(input, filename, i, seen) ==
    IF i > Len(input) THEN [tokens |-> <<>>, seen |-> seen, stopped |-> FALSE]
    ELSE LET token == TokenAt(input[i], filename, i) IN
         IF input[i].type # "INCLUDE"
         THEN LET rest == Spliced(input, filename, i + 1, seen) IN
              [rest EXCEPT !.tokens = <<token>> \o @]
         ELSE IF i = Len(input) THEN [tokens |-> <<>>, seen |-> seen, stopped |-> FALSE]
         ELSE LET token_next == TokenAt(input[i + 1], filename, i + 1)
                  loaded == check_file_not_loaded(seen, token_next.value)
                  try_file == find_file_path(search_paths, token_next.value)
              IN  IF \/ token_next.type # "KEYWORD_TEXT"
                     \/ loaded.raised
                          \/ try_file.raised
                          \/ read_file(try_file.path).raised
                  THEN [tokens |-> <<token_next>>, seen |-> seen, stopped |-> TRUE]
                  ELSE LET file == Spliced(tokenize(read_file(try_file.path).text),
                                           try_file.path, 1, loaded.seen)
                           rest == IF file.stopped
                                   THEN [tokens |-> <<>>, seen |-> file.seen, stopped |-> TRUE]
                                   ELSE Spliced(input, filename, i + 2, file.seen)
                       IN  [rest EXCEPT !.tokens = <<token_next>> \o file.tokens \o @]

\* the tokens get_next_token has taken from lexers
FromLexers == SelectSeq(delivered, LAMBDA token : token.filename # <<>>)

\* the argument has no Embed, and each of its Includes is followed by a filename
IncludesOnly ==
    /\ \A i \in 1..Len(input_text) : input_text[i].type # "EMBED"
    /\ \A i \in 1..(Len(input_text) - 1) :
          input_text[i].type = "INCLUDE" => input_text[i + 1].type = "KEYWORD_TEXT"

\* C9: the tokens get_next_token delivers for an argument with Includes are the
\* argument's tokens with the tokens of each included file in place of its
\* Include, in order, none lost and none twice; no END_OF_FILE of a lexer is
\* delivered.
C9_IncludeSplices ==
    /\ \A i \in 1..Len(delivered) :
          delivered[i].type = "END_OF_FILE" => delivered[i].filename = <<>>
    /\ (input_text # <<>> /\ IncludesOnly) =>
          LET stream == Spliced(input_text, <<"test.m6r">>, 1, {}) IN
          /\ IsPrefix(FromLexers, stream.tokens)
          /\ (lexers = <<>> /\ ~stream.stopped) => FromLexers = stream.tokens

\* the argument's stream has resumed after an included file and run out
C9_Witness ==
    /\ lexers = <<>>
    /\ included # <<>>
    /\ \E i, j, n \in 1..Len(delivered) :
          /\ i < j /\ j < n
          /\ delivered[i].filename = <<"test.m6r">>
          /\ delivered[i].type # "KEYWORD_TEXT"
          /\ realpath(delivered[j].filename) = included[1]
          /\ delivered[n].filename = <<"test.m6r">>
          /\ delivered[n].line = Len(input_text)

\* C10: no token get_next_token returns is an INCLUDE or an EMBED.
C10_NeverReturnsDirective ==
    /\ ret.token.type \notin {"INCLUDE", "EMBED"}
    /\ \A i \in 1..Len(delivered) : delivered[i].type \notin {"INCLUDE", "EMBED"}

\* tokens are being delivered from an embedded file pushed over two lexers
C10_Witness ==
    /\ Len(lexers) >= 3
    /\ lexers[Len(lexers)].class = "EmbedLexer"
    /\ lexers[Len(lexers)].pos >= 1
    /\ ret.token.filename = lexers[Len(lexers)].filename
    /\ \E i \in 1..Len(input_text) : input_text[i].type = "EMBED"

-----------------------------------------------------------------------------

\* the END_OF_FILE tokens get_next_token has returned
EndsDelivered == {i \in 1..Len(delivered) : delivered[i].type = "END_OF_FILE"}

\* C11: get_next_token returns END_OF_FILE only with the lexer stack empty; with
\* the stack empty a call returns END_OF_FILE and leaves the lexer stack, the
\* error list, the seen-files set and the current token as they were, and the
\* stack stays empty for the rest of the parse.
C11_EndOfFileOnlyWhenEmpty ==
    /\ [][(Len(delivered') > Len(delivered)
             /\ delivered'[Len(delivered')].type = "END_OF_FILE")
            => (lexers = <<>> /\ Running("get_next_token", "loop"))]_vars
    /\ [][(Running("get_next_token", "loop") /\ lexers = <<>>)
            => /\ ret'.token.type = "END_OF_FILE"
               /\ delivered' = Append(delivered, ret'.token)
               /\ UNCHANGED <<lexers, parse_errors, previously_seen_files,
                              current_token>>]_vars
    /\ [][(outcome = "running" /\ lexers = <<>>) => lexers' = <<>>]_vars

\* END_OF_FILE has been returned three times in one parse
C11_Witness ==
    /\ Cardinality(EndsDelivered) >= 3
    /\ lexers = <<>>
    /\ current_token.filename # <<>>

-----------------------------------------------------------------------------
(* Embed.                                                                  *)

\* the Embed patterns the argument has given so far
EmbedsOf(input) ==
    {i \in 1..(Len(input) - 1) :
        input[i].type = "EMBED" /\ input[i + 1].type = "KEYWORD_TEXT"}

\* the places of the stream where a token of the file filename was delivered
DeliveredFrom(filename) ==
    {i \in 1..Len(delivered) : delivered[i].filename = filename}

\* C12: when the one Embed of the argument matches files f1, ..., fn, the tokens
\* of each file are delivered together, and those of a file earlier in the
\* enumeration before those of a later one.
C12_EmbedForwardOrder ==
    \A e \in EmbedsOf(input_text) :
        LET files == glob(input_text[e + 1].value, recursive_match(input_text[e + 1].value))
        IN  (Cardinality(EmbedsOf(input_text)) = 1 /\ Len(files) >= 2) =>
                /\ \A a, b \in 1..Len(files) :
                      a < b => \A i \in DeliveredFrom(files[a]), j \in DeliveredFrom(files[b]) :
                                  i < j
                /\ \A a \in 1..Len(files) :
                      \A i, j \in DeliveredFrom(files[a]) :
                          \A n \in i..j : n \in DeliveredFrom(files[a])

NoMatch(match) == match \o <<" does not match any files for 'Embed'">>

\* C13: an Embed whose pattern matches no file records the one error "<pattern>
\* does not match any files for 'Embed'" at the pattern's token, pushes no
\* lexer, raises nothing, and hands control back to the loop of get_next_token,
\* which goes on with the lexers as they were.
C13_EmbedNoMatch ==
    [][(/\ Running("parse_embed", "token_next")
        /\ ret.token.type = "KEYWORD_TEXT"
        /\ glob(ret.token.value, recursive_match(ret.token.value)) = <<>>)
         => /\ parse_errors' =
                 Append(parse_errors,
                        MetaphorParserSyntaxError(NoMatch(ret.token.value),
                            ret.token.filename, ret.token.line, ret.token.column, ret.token.input))
            /\ outcome' = "running"
            /\ stack' = SubSeq(stack, 1, Len(stack) - 1)
            /\ Running("get_next_token", "loop")'
            /\ UNCHANGED <<lexers, previously_seen_files, nodes>>]_vars

\* after the no-match error the parse has gone on and recorded a later error
C13_Witness ==
    /\ Len(parse_errors) >= 2
    /\ parse_errors[1].message = NoMatch(<<"nonexistent*.txt">>)
    /\ parse_errors[2].message # parse_errors[1].message
    /\ parse_errors[2].line > parse_errors[1].line
    /\ Ended

ExpectedFileName(fn) ==
    IF fn = "parse_include" THEN <<"Expected file name for 'Include'">>
    ELSE <<"Expected file name or wildcard match for 'Embed'">>

Handlers == {"parse_include", "parse_embed"}

\* the type of the token that follows token in the text it was lexed from
FollowedBy(token) ==
    LET text == IF token.filename \in ParseFilenames THEN input_text
                ELSE tokenize(read_file(token.filename).text)
        i == CHOOSE i \in 1..Len(text) :
                 /\ text[i].type = token.type
                 /\ IF text[i].line = 0 THEN i = token.line
                    ELSE text[i].line = token.line /\ text[i].column = token.column
    IN  IF i < Len(text) THEN text[i + 1].type ELSE "END_OF_FILE"

\* the call at depth i of the stack ends with this step
Leaves(i) == Len(stack') < i \/ stack'[i] # stack[i]

\* C14: the handler of an Include or Embed that has no KEYWORD_TEXT after it
\* ends by recording the one error "Expected file name ..."; it pushes no
\* lexer, leaves the seen-files set alone, and the parse goes on running.
C14_MissingFileName ==
    [][\A i \in 1..Len(stack) :
         (/\ stack[i].fn \in Handlers
          /\ FollowedBy(stack[i].token) # "KEYWORD_TEXT"
          /\ Leaves(i))
            => /\ Len(parse_errors') = Len(parse_errors) + 1
               /\ IsPrefix(parse_errors, parse_errors')
               /\ parse_errors'[Len(parse_errors')].message = ExpectedFileName(stack[i].fn)
               /\ outcome' = "running"
               /\ UNCHANGED <<lexers, previously_seen_files, included>>]_vars

\* what holds of the step in which a handler finds that the token it was given
\* is no KEYWORD_TEXT
C14_HandlerStep ==
    [][\A fn \in Handlers :
         (Running(fn, "token_next") /\ ret.token.type # "KEYWORD_TEXT")
            => /\ parse_errors' =
                    Append(parse_errors,
                           MetaphorParserSyntaxError(ExpectedFileName(fn),
                               ret.token.filename, ret.token.line, ret.token.column,
                               ret.token.input))
               /\ outcome' = "running"
               /\ stack' = SubSeq(stack, 1, Len(stack) - 1)
               /\ UNCHANGED <<lexers, previously_seen_files, included>>]_vars

\* C15: _parse_embed leaves the seen-files set as it is and never ends in the
\* file-already-used condition; whatever the set holds, an Embed whose files
\* can all be read pushes one EmbedLexer for each of them.
C15_EmbedIgnoresSeenFiles ==
    [][Running("parse_embed", "token_next")
         => /\ previously_seen_files' = previously_seen_files
            /\ \/ parse_errors' = parse_errors
               \/ ~AlreadyUsed(parse_errors'[Len(parse_errors')])
            /\ LET files == glob(ret.token.value, recursive_match(ret.token.value)) IN
               (/\ ret.token.type = "KEYWORD_TEXT"
                /\ files # <<>>
                /\ \A i \in 1..Len(files) : ~read_file(files[i]).raised)
                  => /\ outcome' = "running"
                     /\ parse_errors' = parse_errors
                     /\ Len(lexers') = Len(lexers) + Len(files)
                     /\ SubSeq(lexers', 1, Len(lexers)) = lexers
                     /\ \A i \in 1..Len(files) :
                           /\ lexers'[Len(lexers) + i].class = "EmbedLexer"
                           /\ lexers'[Len(lexers) + i].filename = files[i]]_vars

\* one file embedded twice in one parse
C15_EmbeddedTwice ==
    /\ Cardinality({i \in 1..Len(delivered) :
                       delivered[i].value = <<"File: ", "test1.txt">>}) = 2
    /\ \A i \in 1..Len(parse_errors) : ~AlreadyUsed(parse_errors[i])
    /\ Ended

\* a file that an Include has put into the seen-files set is being embedded
C15_Witness ==
    /\ realpath(<<"test1.txt">>) \in previously_seen_files
    /\ included = <<realpath(<<"test1.txt">>)>>
    /\ lexers # <<>>
    /\ lexers[Len(lexers)].class = "EmbedLexer"
    /\ lexers[Len(lexers)].filename = <<"test1.txt">>
    /\ lexers[Len(lexers)].pos >= 1
    /\ outcome = "running"

-----------------------------------------------------------------------------
(* Fatal errors.                                                           *)

\* an entry for a file that could not be used
ResourceError(entry) ==
    \/ AlreadyUsed(entry)
    \/ entry.message # <<>> /\ entry.message[1] \in {"File not found: ", "Is a directory: "}

\* the Include or Embed whose handler fn has its filename token cannot use a file
HitsResourceError(fn) ==
    /\ Running(fn, "token_next")
    /\ ret.token.type = "KEYWORD_TEXT"
    /\ IF fn = "parse_include"
       THEN \/ check_file_not_loaded(previously_seen_files, ret.token.value).raised
            \/ find_file_path(search_paths, ret.token.value).raised
            \/ read_file(find_file_path(search_paths, ret.token.value).path).raised
       ELSE LET files == glob(ret.token.value, recursive_match(ret.token.value)) IN
            \E i \in 1..Len(files) : read_file(files[i]).raised

-----------------------------------------------------------------------------
(* Where an error is.                                                      *)

\* C17: every entry of the list of a MetaphorParserError has a filename, a line
\* and a column that are both at least 1, the source line and a message.
C17_EntriesCarryPosition ==
    outcome = "MetaphorParserError" =>
        \A i \in 1..Len(parse_errors) :
            /\ parse_errors[i].filename # <<>>
            /\ parse_errors[i].line >= 1
            /\ parse_errors[i].column >= 1
            /\ parse_errors[i].input_text # <<>>
            /\ parse_errors[i].message # <<>>

\* the Include whose handler has its filename token names a file that is found
\* neither as written nor under a search path
NamesMissingFile ==
    /\ Running("parse_include", "token_next")
    /\ ret.token.type = "KEYWORD_TEXT"
    /\ ~check_file_not_loaded(previously_seen_files, ret.token.value).raised
    /\ find_file_path(search_paths, ret.token.value).raised

\* C18: the "File not found" entry of an Include whose file is found nowhere
\* has the name of the file the Include directive is in, and the line, the
\* column (both above 0) and the source line of the directive's filename token,
\* which is the last token fetched from a lexer.
C18_FileNotFoundPosition ==
    [][NamesMissingFile
         => LET entry == parse_errors'[Len(parse_errors')]
                directive == stack[Len(stack)].token
            IN  /\ Len(parse_errors') = Len(parse_errors) + 1
                /\ entry.message = <<"File not found: ">> \o ret.token.value
                /\ ret.token = current_token
                /\ entry.filename = directive.filename
                /\ entry.line = current_token.line /\ entry.line > 0
                /\ entry.column = current_token.column /\ entry.column > 0
                /\ entry.input_text = current_token.input
                /\ entry.input_text = SourceLine(directive.filename, entry.line)]_vars

-----------------------------------------------------------------------------
(* The header and the body of a block.                                     *)

ExpectedIndent(fn) ==
    <<"Expected indent after keyword description for '", Kind(NodeType(fn)), "' block">>

ExpectedDescription(fn) ==
    <<"Expected description or indent for '", Kind(NodeType(fn)), "' block">>

\* this step constructs the node of the block of fn with the label, and the
\* block goes on to fetch the first token of its body
Constructs(fn, label) ==
    /\ nodes' = Append(nodes, [node_type |-> NodeType(fn), value |-> label,
                               parent |-> 0, children |-> <<>>])
    /\ Len(stack') = Len(stack) + 1
    /\ stack'[Len(stack)].fn = fn
    /\ stack'[Len(stack)].pc = "body"
    /\ stack'[Len(stack)].node = Len(nodes) + 1
    /\ stack'[Len(stack')].fn = "get_next_token"
    /\ outcome' = "running"

\* this step records the message at the keyword token of the block iff the
\* token the header got is no INDENT
RecordsUnlessIndent(message) ==
    parse_errors' =
        IF ret.token.type = "INDENT" THEN parse_errors
        ELSE Append(parse_errors,
                    MetaphorParserSyntaxError(message, top.token.filename, top.token.line,
                                              top.token.column, top.token.input))

\* a block node that no parent has is the node of a block parser still running
\* or the node just returned to the caller that attaches it
UnderConstruction(n) ==
    \/ \E i \in 1..Len(stack) : stack[i].fn \in BlockParsers /\ stack[i].node = n
    \/ stack # <<>> /\ top.pc = "attach" /\ ret.node = n

\* C19: the header of a Role, Context or Action block.  A KEYWORD_TEXT gives the
\* label and no error yet; the token after it records "Expected indent after
\* keyword description ..." iff it is no INDENT.  Any other first token leaves
\* the label empty and records "Expected description or indent ..." iff it is
\* no INDENT.  Each way the node is constructed with that label and the body
\* begins; the body's end returns the node to the caller, which attaches it, so
\* that while the parse runs every block node has a parent or is under
\* construction.
C19_BlockHeader ==
    /\ [][\A fn \in BlockParsers :
            /\ (Running(fn, "init_token") /\ ret.token.type = "KEYWORD_TEXT")
                  => /\ UNCHANGED <<parse_errors, nodes, outcome>>
                     /\ Len(stack') = Len(stack) + 1
                     /\ stack'[Len(stack)].pc = "indent_token"
                     /\ stack'[Len(stack)].label_name = ret.token.value
            /\ Running(fn, "indent_token")
                  => /\ Constructs(fn, top.label_name)
                     /\ RecordsUnlessIndent(ExpectedIndent(fn))
            /\ (Running(fn, "init_token") /\ ret.token.type # "KEYWORD_TEXT")
                  => /\ Constructs(fn, <<>>)
                     /\ RecordsUnlessIndent(ExpectedDescription(fn))
            /\ (Running(fn, "body") /\ ret.token.type \in {"OUTDENT", "END_OF_FILE"})
                  => /\ stack' = Return
                     /\ ret'.node = top.node
                     /\ stack'[Len(stack')].pc = "attach"
                     /\ UNCHANGED <<parse_errors, nodes>>]_vars
    /\ [][(stack # <<>> /\ top.pc = "attach")
            => LET parent == IF top.fn = "parse" THEN syntax_tree ELSE top.node IN
               /\ nodes'[ret.node].parent = parent
               /\ nodes'[parent].children = Append(nodes[parent].children, ret.node)]_vars
    /\ [](outcome = "running"
            => \A n \in 1..Len(nodes) :
                  (nodes[n].node_type \in Sections /\ nodes[n].parent = 0)
                     => UnderConstruction(n))

\* a block with a label and no indent after it is attached to the root, with
\* its one error
C19_Witness ==
    /\ AtTopLevel
    /\ \E fn \in BlockParsers :
          /\ CountMessage(parse_errors, ExpectedIndent(fn)) = 1
          /\ CountMessage(parse_errors, ExpectedDescription(fn)) = 0
          /\ \E i \in 1..Len(RootChildren) :
                /\ nodes[RootChildren[i]].node_type = NodeType(fn)
                /\ nodes[RootChildren[i]].value # <<>>

UnexpectedInBlock(fn, token) ==
    <<"Unexpected token: ">> \o token.value \o <<" in '", Kind(NodeType(fn)), "' block">>

\* C20: a token of a body that is no TEXT, OUTDENT or END_OF_FILE, nor a
\* CONTEXT in a Context block, records the one error "Unexpected token: <value>
\* in '<Kind>' block" with the filename, line and column of that token; the
\* block is not ended: its loop fetches the next token.
C20_UnexpectedBodyToken ==
    [][\A fn \in BlockParsers :
         (/\ Running(fn, "body")
          /\ ret.token.type \notin {"TEXT", "OUTDENT", "END_OF_FILE"}
          /\ ~(fn = "parse_context" /\ ret.token.type = "CONTEXT"))
            => /\ parse_errors' =
                    Append(parse_errors,
                           MetaphorParserSyntaxError(UnexpectedInBlock(fn, ret.token),
                               ret.token.filename, ret.token.line, ret.token.column,
                               ret.token.input))
               /\ stack' = Append(stack, GetNextTokenFrame)
               /\ UNCHANGED <<nodes, outcome>>]_vars

\* two unexpected tokens of one block, one after the other, and the block
\* attached after them
C20_Witness ==
    /\ AtTopLevel
    /\ Len(RootChildren) > Len(preamble)
    /\ \E fn \in BlockParsers, i \in 1..Len(parse_errors) - 1 :
          \A j \in {i, i + 1} :
             /\ parse_errors[j].message[1] = "Unexpected token: "
             /\ SubSeq(parse_errors[j].message, Len(parse_errors[j].message) - 2,
                       Len(parse_errors[j].message)) = <<" in '", Kind(NodeType(fn)), "' block">>
             /\ parse_errors[j].line = parse_errors[i].line + (j - i)

-----------------------------------------------------------------------------
(* Tokens of bad indentation.                                               *)

\* delivered[i] is the BAD_INDENT of a line indented by 3 spaces that comes
\* right after the line of a Role: with its label
BadIndentAfterRole(i) ==
    /\ i >= 3
    /\ delivered[i].type = "BAD_INDENT"
    /\ delivered[i].column = 4
    /\ delivered[i - 1].type = "KEYWORD_TEXT"
    /\ delivered[i - 2].type = "ROLE"
    /\ delivered[i - 2].filename = delivered[i].filename
    /\ delivered[i - 2].line + 1 = delivered[i].line

\* C21: a parse in which a line indented by 3 spaces follows the line
\* "Role: Test" fails, and its error list has an entry at the BAD_INDENT token:
\* the file, the line and the column of that token.
C21_BadIndentError ==
    \A i \in 1..Len(delivered) :
       (Ended /\ BadIndentAfterRole(i))
          => /\ outcome = "MetaphorParserError"
             /\ \E j \in 1..Len(parse_errors) :
                   /\ parse_errors[j].filename = delivered[i].filename
                   /\ parse_errors[j].line = delivered[i].line
                   /\ parse_errors[j].column = delivered[i].column

BadTokens == {"BAD_INDENT", "BAD_OUTDENT", "TAB"}

\* C22: whatever call receives a BAD_INDENT, BAD_OUTDENT or TAB from
\* get_next_token (parse at the top level, a block parser for its header or
\* its body, _parse_include or _parse_embed for the filename) records at least
\* one error in the step that takes it and the parse goes on to fetch the next
\* token; a parse that was given such a token returns no tree.
C22_BadTokensAreErrors ==
    /\ [][(stack # <<>> /\ ret.token.type \in BadTokens)
            => /\ Len(parse_errors') > Len(parse_errors)
               /\ IsPrefix(parse_errors, parse_errors')
               /\ outcome' = "running"
               /\ stack' # <<>>
               /\ stack'[Len(stack')].fn = "get_next_token"]_vars
    /\ [](outcome = "returned"
            => \A i \in 1..Len(delivered) : delivered[i].type \notin BadTokens)

\* a parse that got a token of each of the three kinds, one of them in place
\* of a filename, has ended with an error for each
C22_Witness ==
    /\ outcome = "MetaphorParserError"
    /\ \A type \in BadTokens : \E i \in 1..Len(delivered) : delivered[i].type = type
    /\ \E i \in 2..Len(delivered) :
          /\ delivered[i].type \in BadTokens
          /\ \E j \in 1..Len(parse_errors) :
                /\ parse_errors[j].message = ExpectedFileName("parse_include")
                /\ parse_errors[j].line = delivered[i].line
    /\ Len(parse_errors) >= 3

-----------------------------------------------------------------------------
(* _find_file_path on its own: a parser with some search paths is asked    *)
(* for one filename.                                                        *)

SearchDirs == {<<"/", "includes">>, <<"/", "other">>, <<"/", "empty">>}

\* The longest list of search paths tried.
MaxSearchPaths == 3

SearchPathsTried ==
    UNION {[1..n -> SearchDirs] : n \in 0..MaxSearchPaths}

FileNames == IncludeNames \cup {<<"/", "missing.m6r">>, <<"/", "other", "included.m6r">>}

FindInit ==
    /\ nodes = <<MetaphorASTNode("ROOT", <<>>)>>
    /\ parse_errors = <<>>
    /\ lexers = <<>>
    /\ previously_seen_files = {}
    /\ search_paths \in SearchPathsTried
    /\ current_token = NoToken
    /\ stack = <<>>
    /\ ret = ReturnsNone
    /\ outcome = "new"
    /\ input_text = <<>>
    /\ delivered = <<>>
    /\ included = <<>>
    /\ other = NoInstance

\* self._find_file_path(filename), called from outside a parse
find_file_path_call(filename) ==
    /\ outcome = "new"
    /\ stack = <<>>
    /\ stack' = <<[fn |-> "find_file_path", filename |-> filename]>>
    /\ ret' = find_file_path(search_paths, filename)
    /\ UNCHANGED <<nodes, parse_errors, lexers, previously_seen_files, search_paths,
                   current_token, outcome, input_text, delivered, included, other>>

FindNext == \E filename \in FileNames : find_file_path_call(filename)

FindSpec == FindInit /\ [][FindNext]_vars

\* the places of the search paths under which the file exists
FoundUnder(filename) ==
    {i \in 1..Len(search_paths) : exists(join(search_paths[i], filename))}

\* C23: the result of _find_file_path is the name as given when that path
\* exists, whatever the search paths hold; else the join of the name with the
\* first search path under which it exists; else FileNotFoundError.
C23_FindFilePath ==
    stack # <<>> =>
        LET filename == stack[1].filename IN
        IF exists(filename) THEN ~ret.raised /\ ret.path = filename
        ELSE IF FoundUnder(filename) # {}
        THEN /\ ~ret.raised
             /\ \E i \in FoundUnder(filename) :
                   /\ ret.path = join(search_paths[i], filename)
                   /\ \A j \in FoundUnder(filename) : i <= j
        ELSE ret.raised

\* a name that exists as given and under a search path as well
C23_DirectWins ==
    /\ stack # <<>>
    /\ exists(stack[1].filename)
    /\ ~isabs(stack[1].filename)
    /\ FoundUnder(stack[1].filename) # {}
    /\ ret.path = stack[1].filename

\* a name found under two different search paths only
C23_Witness ==
    /\ stack # <<>>
    /\ ~ret.raised
    /\ ~exists(stack[1].filename)
    /\ \E i, j \in FoundUnder(stack[1].filename) :
          i < j /\ search_paths[i] # search_paths[j]

-----------------------------------------------------------------------------
(* The file an error names.                                                 *)

\* the lexemes of the text that filename names: the text given to parse(), or
\* the file of that name on the disk
LexemesOf(filename) ==
    IF filename \in ParseFilenames THEN input_text
    ELSE IF read_file(filename).raised THEN <<>>
    ELSE tokenize(read_file(filename).text)

\* token is a token of the text its filename names, at its place there: a
\* token of the structural lexer of that text, or one of the four an EmbedLexer
\* makes of the file
TokenOfItsFile(token) ==
    \/ \E i \in 1..Len(LexemesOf(token.filename)) :
          TokenAt(LexemesOf(token.filename)[i], token.filename, i) = token
    \/ /\ ~read_file(token.filename).raised
       /\ LET input == EmbedLexer(read_file(token.filename).text, token.filename).input IN
          \E i \in 1..Len(input) : TokenAt(input[i], token.filename, i) = token

\* the entry is at the place of token
EntryAt(entry, token) ==
    /\ entry.filename = token.filename
    /\ entry.line = token.line
    /\ entry.column = token.column
    /\ entry.input_text = token.input

-----------------------------------------------------------------------------
(* Two instances.  The variables hold the instance whose thread runs;     *)
(* other holds the second one while it waits.  A switch of threads puts   *)
(* the waiting instance in the variables: each thread has its own call    *)
(* stack, and what a switch does to an attribute depends on where         *)
(* __init__ keeps it.                                                     *)

\* the running instance and its thread, as other holds the waiting one
Running2 ==
    [id |-> 3 - other.id,
     nodes |-> nodes,
     parse_errors |-> parse_errors,
     lexers |-> lexers,
     previously_seen_files |-> previously_seen_files,
     search_paths |-> search_paths,
     current_token |-> current_token,
     stack |-> stack,
     ret |-> ret,
     outcome |-> outcome,
     input_text |-> input_text,
     delivered |-> delivered,
     included |-> included]

\* what self.<attribute> reads once the other instance runs: its own value
\* when the attribute is set on the instance, the value left behind when not
Attribute(attribute, left, own) ==
    IF attribute \in InstanceAttributes THEN own ELSE left

\* the thread of the other instance is scheduled
switch ==
    /\ other.id # 0
    /\ nodes' = Attribute("syntax_tree", nodes, other.nodes)
    /\ parse_errors' = Attribute("parse_errors", parse_errors, other.parse_errors)
    /\ lexers' = Attribute("lexers", lexers, other.lexers)
    /\ previously_seen_files' =
           Attribute("previously_seen_files", previously_seen_files,
                     other.previously_seen_files)
    /\ search_paths' = Attribute("search_paths", search_paths, other.search_paths)
    /\ current_token' = Attribute("current_token", current_token, other.current_token)
    /\ stack' = other.stack
    /\ ret' = other.ret
    /\ outcome' = other.outcome
    /\ input_text' = other.input_text
    /\ delivered' = other.delivered
    /\ included' = other.included
    /\ other' = Running2

\* what the two instances parse: a file with its search paths.  The first
\* instance is given any of these, the second those of SecondInputs.
TwoInputs ==
    {<<f, <<>> >> : f \in {<<"main.m6r">>, <<"nested.m6r">>, <<"self.m6r">>,
                           <<"late.m6r">>, <<"search.m6r">>, <<"wildcard_embed.m6r">>,
                           <<"include_no_file.m6r">>, <<"embed_no_file.m6r">>,
                           <<"embed_no_matches.m6r">>, <<"embed_directory.m6r">>,
                           <<"empty_value.m6r">>, <<"action_bad_outdent.m6r">>,
                           <<"cycle1.m6r">>}}
    \cup {<< <<"search.m6r">>, << <<"/", "includes">> >> >>}

SecondInputs ==
    {<< <<"nested.m6r">>, <<>> >>, << <<"self.m6r">>, <<>> >>,
     << <<"wildcard_embed.m6r">>, <<>> >>,
     << <<"search.m6r">>, << <<"/", "includes">> >> >>}

InputsOf(id) == IF id = 1 THEN TwoInputs ELSE SecondInputs

TwoInit ==
    /\ nodes = MetaphorParser(1).nodes
    /\ parse_errors = MetaphorParser(1).parse_errors
    /\ lexers = MetaphorParser(1).lexers
    /\ previously_seen_files = MetaphorParser(1).previously_seen_files
    /\ search_paths = MetaphorParser(1).search_paths
    /\ current_token = MetaphorParser(1).current_token
    /\ stack = MetaphorParser(1).stack
    /\ ret = MetaphorParser(1).ret
    /\ outcome = MetaphorParser(1).outcome
    /\ input_text = MetaphorParser(1).input_text
    /\ delivered = MetaphorParser(1).delivered
    /\ included = MetaphorParser(1).included
    /\ other = MetaphorParser(2)

TwoNext ==
    \/ switch
    \/ \E input \in InputsOf(3 - other.id) : parse_file(input[1], input[2])
    \/ get_next_token_include
    \/ get_next_token_embed
    \/ get_next_token_end_of_file
    \/ get_next_token_return
    \/ get_next_token_empty
    \/ parse_include_no_filename
    \/ parse_include_already_used
    \/ parse_include_not_found
    \/ parse_include_push
    \/ parse_embed_no_filename
    \/ parse_embed_no_match
    \/ parse_embed_push
    \/ parse_embed_not_found
    \/ parse_section
    \/ parse_attach
    \/ parse_end_of_file_raise
    \/ parse_end_of_file_return
    \/ parse_unexpected
    \/ \E fn \in BlockParsers : block_keyword_text(fn)
    \/ \E fn \in BlockParsers : block_indent_token(fn)
    \/ \E fn \in BlockParsers : block_no_keyword_text(fn)
    \/ \E fn \in BlockParsers : block_text(fn)
    \/ context_nested
    \/ context_attach
    \/ \E fn \in BlockParsers : block_return(fn)
    \/ \E fn \in BlockParsers : block_unexpected(fn)

TwoSpec == TwoInit /\ [][TwoNext]_vars

\* the instance was given the input: no file of TwoInputs includes another
Given(instance, input) ==
    /\ instance.outcome # "new"
    /\ instance.search_paths = input[2]
    /\ realpath(input[1]) \in instance.previously_seen_files

EndedParse(instance) == instance.outcome \in {"returned", "MetaphorParserError"}

\* the tree or the error list the parse produced
Produced(instance) ==
    [outcome |-> instance.outcome,
     errors |-> instance.parse_errors,
     tree |-> instance.nodes]

\* C25: two MetaphorParser instances share no mutable state.  A step of
\* the running instance leaves everything of the waiting one as it is, the
\* instance that is scheduled finds its lexer stack, error list, seen-files
\* set, current token and tree as it left them, so each runs as it does
\* alone; and two parses of the same input, however interleaved, end with
\* the same tree or the same error list.
C25_NoSharedState ==
    /\ [][IF other'.id = other.id
          THEN other' = other
          ELSE Running2' = other /\ other' = Running2]_vars
    /\ [](\A input \in SecondInputs :
             /\ Given(Running2, input) /\ EndedParse(Running2)
             /\ Given(other, input) /\ EndedParse(other)
             => Produced(Running2) = Produced(other))

\* both instances are part way through the same file, one further than the
\* other, each with its own Include pushed
C25_Witness ==
    /\ outcome = "running"
    /\ other.outcome = "running"
    /\ Given(Running2, << <<"search.m6r">>, << <<"/", "includes">> >> >>)
    /\ Given(other, << <<"search.m6r">>, << <<"/", "includes">> >> >>)
    /\ Len(included) = 1
    /\ Len(other.included) = 1
    /\ Len(delivered) > Len(other.delivered)
    /\ other.parse_errors = <<>>

\* both have ended on the same file, after the other began
C25_BothEnded ==
    /\ EndedParse(Running2)
    /\ EndedParse(other)
    /\ \E input \in SecondInputs : Given(Running2, input) /\ Given(other, input)

-----------------------------------------------------------------------------
(* MetaphorASTNode objects in the hands of a caller: a few nodes, attached *)
(* and detached in any order, and the list the children accessor returned, *)
(* which the caller changes as it likes.  ret is that list, outcome tells  *)
(* how the last call ended.                                                *)

\* the nodes the caller has made, and the longest children list it builds
MaxNodes == 3
MaxChildren == 2

TreeNodes == 1..MaxNodes

\* every node but the last is given children, every node but the first is
\* given to a parent, and none to itself
TreeParents == 1..(MaxNodes - 1)
TreeChildren == 2..MaxNodes

TreeInit ==
    /\ nodes = [n \in TreeNodes |-> MetaphorASTNode(IF n = 1 THEN "ROOT" ELSE "TEXT", <<>>)]
    /\ parse_errors = <<>>
    /\ lexers = <<>>
    /\ previously_seen_files = {}
    /\ search_paths = <<>>
    /\ current_token = NoToken
    /\ stack = <<>>
    /\ ret = ReturnsNone
    /\ outcome = "new"
    /\ input_text = <<>>
    /\ delivered = <<>>
    /\ included = <<>>
    /\ other = NoInstance

\* parent.attach_child(child)
attach_child_call(parent, child) ==
    /\ parent # child
    /\ Len(nodes[parent].children) < MaxChildren
    /\ nodes' = attach_child(nodes, parent, child)
    /\ outcome' = "returned"
    /\ UNCHANGED <<parse_errors, lexers, previously_seen_files, search_paths,
                   current_token, stack, ret, input_text, delivered, included, other>>

\* parent.detach_child(child)
detach_child_call(parent, child) ==
    /\ parent # child
    /\ nodes' = detach_child(nodes, parent, child).nodes
    /\ outcome' = IF detach_child(nodes, parent, child).raised
                  THEN "ValueError" ELSE "returned"
    /\ UNCHANGED <<parse_errors, lexers, previously_seen_files, search_paths,
                   current_token, stack, ret, input_text, delivered, included, other>>

\* held = node.children
children_call(node) ==
    /\ ret' = children(nodes, node)
    /\ outcome' = "returned"
    /\ UNCHANGED <<nodes, parse_errors, lexers, previously_seen_files, search_paths,
                   current_token, stack, input_text, delivered, included, other>>

\* the caller holds a list the accessor returned
HoldsList == "object" \in DOMAIN ret

\* the items of the list the caller holds
HeldItems == IF ret.object = 0 THEN ret.items ELSE nodes[ret.object].children

\* the caller changes the list it holds to items
ListBecomes(items) ==
    /\ HoldsList
    /\ items # HeldItems
    /\ IF ret.object = 0
       THEN /\ ret' = [ret EXCEPT !.items = items, !.changed = TRUE]
            /\ UNCHANGED nodes
       ELSE /\ nodes' = [nodes EXCEPT ![ret.object].children = items]
            /\ ret' = [ret EXCEPT !.changed = TRUE]
    /\ UNCHANGED <<parse_errors, lexers, previously_seen_files, search_paths,
                   current_token, stack, outcome, input_text, delivered, included,
                   other>>

Reverse(s) == [i \in 1..Len(s) |-> s[Len(s) + 1 - i]]

\* held.append(node)
list_append(node) ==
    /\ HoldsList
    /\ Len(HeldItems) < MaxChildren
    /\ ListBecomes(Append(HeldItems, node))

\* held.remove(node)
list_remove(node) ==
    /\ HoldsList
    /\ in(node, HeldItems)
    /\ ListBecomes(remove(HeldItems, node))

\* held.reverse()
list_reverse ==
    /\ HoldsList
    /\ ListBecomes(Reverse(HeldItems))

TreeNext ==
    \/ \E parent \in TreeParents, child \in TreeChildren : attach_child_call(parent, child)
    \/ \E parent \in TreeParents, child \in TreeChildren : detach_child_call(parent, child)
    \/ \E node \in TreeParents : children_call(node)
    \/ \E node \in TreeChildren : list_append(node)
    \/ \E node \in TreeChildren : list_remove(node)
    \/ list_reverse

TreeSpec == TreeInit /\ [][TreeNext]_vars

\* C26: the children accessor returns an independent snapshot.  The children
\* a node reports change only in a step of attach_child or detach_child,
\* never when the caller adds to, removes from or reorders a list the
\* accessor returned; and attach_child and detach_child leave a list the
\* accessor returned as it is.
C26_ChildrenSnapshot ==
    [][/\ (\E n \in TreeNodes : nodes'[n].children # nodes[n].children)
          => \E parent \in TreeParents, child \in TreeChildren :
                \/ attach_child_call(parent, child)
                \/ detach_child_call(parent, child)
       /\ (/\ HoldsList
           /\ \E parent \in TreeParents, child \in TreeChildren :
                 \/ attach_child_call(parent, child)
                 \/ detach_child_call(parent, child))
          => HeldItems' = HeldItems]_vars

\* the caller has changed a list the accessor returned, and the node
\* reports the children it had
C26_Witness ==
    /\ HoldsList
    /\ ret.changed
    /\ Len(nodes[ret.of].children) = 2
    /\ HeldItems # nodes[ret.of].children
    /\ \E i \in 1..Len(HeldItems) : ~in(HeldItems[i], nodes[ret.of].children)

\* how many times node c is in the list
Occurrences(c, list) == Cardinality({i \in 1..Len(list) : list[i] = c})

\* C27: after any sequence of attach_child and detach_child calls, every
\* node is in the children of at most one node and at most once there, and
\* a node c is in p's children exactly when c.parent is p.
C27_OneParent ==
    /\ \A c \in TreeNodes :
          /\ Cardinality({p \in TreeNodes : in(c, nodes[p].children)}) <= 1
          /\ \A p \in TreeNodes : Occurrences(c, nodes[p].children) <= 1
    /\ \A p \in TreeNodes, c \in TreeNodes :
          in(c, nodes[p].children) <=> nodes[c].parent = p

\* the children of p as the claim has them after p.detach_child(c)
Detached(p, c) ==
    LET kept == {i \in 1..Len(nodes[p].children) : nodes[p].children[i] # c}
        nth(n) == CHOOSE i \in kept : Cardinality({j \in kept : j < i}) = n - 1
    IN  [n \in 1..Cardinality(kept) |-> nodes[p].children[nth(n)]]

\* C28: detach_child(c) on a node without c among its children raises
\* ValueError and leaves the node's children and c's parent as they are; on
\* a node with c as a child it removes c from the children, keeps the order
\* of the others and sets c's parent to none; so attach_child(c) followed by
\* detach_child(c) gives back the children the node had.
C28_DetachChild ==
    /\ [][\A p \in TreeParents, c \in TreeChildren :
             detach_child_call(p, c) =>
                IF in(c, nodes[p].children)
                THEN /\ outcome' = "returned"
                     /\ ~in(c, nodes'[p].children)
                     /\ nodes'[p].children = Detached(p, c)
                     /\ nodes'[c].parent = 0
                ELSE /\ outcome' = "ValueError"
                     /\ nodes'[p].children = nodes[p].children
                     /\ nodes'[c].parent = nodes[c].parent]_vars
    /\ [](\A p \in TreeParents, c \in TreeChildren :
             p # c =>
                detach_child(attach_child(nodes, p, c), p, c).nodes[p].children
                    = nodes[p].children)

-----------------------------------------------------------------------------
(* Embedded files in the tree.                                             *)

\* the files of the disk an Embed pattern matches and _read_file can read
EmbeddedFiles == {<<"test1.txt">>, <<"test2.txt">>}

\* the values of the TEXT tokens the embed lexer makes of a file
EmbedValues(filename) ==
    [j \in 1..4 |-> EmbedLexer(read_file(filename).text, filename).input[j].value]

EmbedTop == lexers # <<>> /\ lexers[Len(lexers)].class = "EmbedLexer"

\* the token is the one the embed lexer on top of the stack gave last
FromEmbed(token) ==
    /\ EmbedTop
    /\ LET lexer == lexers[Len(lexers)]
       IN  /\ lexer.pos >= 1
           /\ token = TokenAt(lexer.input[lexer.pos], lexer.filename, lexer.pos)

\* get_next_token was called from the body loop of a block
CalledFromBody ==
    /\ Running("get_next_token", "loop")
    /\ Len(stack) >= 2
    /\ stack[Len(stack) - 1].fn \in BlockParsers
    /\ stack[Len(stack) - 1].pc = "body"

\* C29: each file an Embed inside a block matches gives that block exactly
\* four consecutive TEXT children: the file header, the opening fence with
\* the language, the whole content, the closing fence.  In the tree, the
\* children after a header are the three others of its file, all there when
\* the parse has ended; a token of the embed lexer fetched from the body of
\* a block goes to that body and becomes the block's next child; and the
\* embed lexer's END_OF_FILE is popped with nothing delivered, nothing
\* attached and the block still open.
C29_EmbedFourChildren ==
    /\ [](\A n \in 1..Len(nodes), f \in EmbeddedFiles :
             LET list == nodes[n].children IN
             \A i \in 1..Len(list) :
                (nodes[list[i]].node_type = "TEXT" /\ nodes[list[i]].value = EmbedValues(f)[1])
                => /\ \A j \in 1..3 :
                         i + j <= Len(list) =>
                            /\ nodes[list[i + j]].node_type = "TEXT"
                            /\ nodes[list[i + j]].value = EmbedValues(f)[j + 1]
                   /\ Ended => i + 3 <= Len(list))
    /\ [][/\ (CalledFromBody /\ EmbedTop /\ lexers[Len(lexers)].pos < 4)
             => /\ ret'.token = TokenAt(lexers[Len(lexers)].input[lexers[Len(lexers)].pos + 1],
                                        lexers[Len(lexers)].filename,
                                        lexers[Len(lexers)].pos + 1)
                /\ ret'.token.type = "TEXT"
                /\ Len(lexers') = Len(lexers)
                /\ lexers'[Len(lexers')].pos = lexers[Len(lexers)].pos + 1
                /\ stack' = Return
          /\ ((\E fn \in BlockParsers : Running(fn, "body")) /\ FromEmbed(ret.token))
             => /\ Len(nodes') = Len(nodes) + 1
                /\ nodes'[top.node].children = Append(nodes[top.node].children, Len(nodes'))
                /\ nodes'[Len(nodes')].node_type = "TEXT"
                /\ nodes'[Len(nodes')].value = ret.token.value
                /\ stack' = Resume(top, <<GetNextTokenFrame>>)
                /\ lexers' = lexers
          /\ (CalledFromBody /\ EmbedTop /\ lexers[Len(lexers)].pos = 4)
             => /\ lexers' = SubSeq(lexers, 1, Len(lexers) - 1)
                /\ UNCHANGED <<nodes, stack, delivered>>]_vars

\* a returned tree with a Context whose children are the four nodes of one
\* file and then the four of another
C29_Witness ==
    /\ outcome = "returned"
    /\ \E n \in 1..Len(nodes), f \in EmbeddedFiles, g \in EmbeddedFiles :
          /\ f # g
          /\ nodes[n].node_type = "CONTEXT"
          /\ Len(nodes[n].children) = 8
          /\ \A j \in 1..4 :
                /\ nodes[nodes[n].children[j]].value = EmbedValues(f)[j]
                /\ nodes[nodes[n].children[4 + j]].value = EmbedValues(g)[j]

-----------------------------------------------------------------------------
(* The structural lexer on its own: a text of up to MaxLines lines, read   *)
(* line by line.  input_text holds the lines read, lexers the lexer with   *)
(* its indentation stack, delivered the tokens it has given.               *)

\* the longest text, in lines
MaxLines == 4

\* the lines a text is made of: text and keywords at indentations of zero to
\* three levels and at one that is no level, blank and comment lines, and a
\* line indented with a tab
LexLines ==
    {TextLine(indent, "text") : indent \in {0, 3, 4, 5, 8, 12}}
    \cup {KeywordLine(indent, "CONTEXT", <<"Label">>) : indent \in {0, 4, 8}}
    \cup {BlankLine, CommentLine(4), Line(4, TRUE, "text", "NONE", <<"text">>)}
    \cup {FenceLine(indent) : indent \in {0, 4}}

\* MetaphorLexer(text, filename) as it starts: nothing read, one level
LexInit ==
    /\ nodes = <<MetaphorASTNode("ROOT", <<>>)>>
    /\ parse_errors = <<>>
    /\ lexers = <<[class |-> "MetaphorLexer", filename |-> <<"test.txt">>,
                   indent_stack |-> <<1>>, in_fenced_code |-> FALSE]>>
    /\ previously_seen_files = {}
    /\ search_paths = <<>>
    /\ current_token = NoToken
    /\ stack = <<>>
    /\ ret = ReturnsNone
    /\ outcome = "new"
    /\ input_text = <<>>
    /\ delivered = <<>>
    /\ included = <<>>
    /\ other = NoInstance

\* the lexer reads one more line of its text
lex_line(line) ==
    /\ outcome = "new"
    /\ Len(input_text) < MaxLines
    /\ input_text' = Append(input_text, line)
    /\ delivered' =
          delivered \o (IF lexers[1].in_fenced_code
                        THEN FencedTokens(lexers[1].indent_stack, line, Len(input_text) + 1)
                        ELSE LineTokens(lexers[1].indent_stack, line, Len(input_text) + 1))
    /\ lexers' =
          LET indent_stack == IF lexers[1].in_fenced_code THEN lexers[1].indent_stack
                              ELSE LineStack(lexers[1].indent_stack, line)
          IN  <<[lexers[1] EXCEPT
                    !.indent_stack = indent_stack,
                    !.in_fenced_code = InFencedCode(@, indent_stack, line)]>>
    /\ UNCHANGED <<nodes, parse_errors, previously_seen_files, search_paths,
                   current_token, stack, ret, outcome, other, included>>

\* the lexer reaches the end of its text
lex_end_of_input ==
    /\ outcome = "new"
    /\ delivered' = delivered
                      \o LexFrom(input_text, Len(input_text) + 1, lexers[1].indent_stack,
                                 lexers[1].in_fenced_code)
                      \o <<at("END_OF_FILE", <<>>, Len(input_text) + 1, 1)>>
    /\ lexers' = <<[lexers[1] EXCEPT !.indent_stack = <<1>>]>>
    /\ outcome' = "returned"
    /\ UNCHANGED <<nodes, parse_errors, previously_seen_files, search_paths,
                   current_token, stack, ret, input_text, other, included>>

LexNext ==
    \/ \E line \in LexLines : lex_line(line)
    \/ lex_end_of_input

LexSpec == LexInit /\ [][LexNext]_vars

\* how many of the first n tokens given are of the type
TokensOfType(type, n) == Cardinality({i \in 1..n : delivered[i].type = type})

ValidIndentation ==
    \A i \in 1..Len(delivered) : delivered[i].type \notin {"BAD_INDENT", "BAD_OUTDENT"}

\* C30: for a text whose indentation is valid, no prefix of the lexer's
\* token stream has more OUTDENT tokens than INDENT tokens, and the stream
\* up to END_OF_FILE has as many of one as of the other; read to its end,
\* the stream is the one Lex makes of the text.
C30_IndentBalance ==
    ValidIndentation =>
       /\ \A n \in 0..Len(delivered) : TokensOfType("OUTDENT", n) <= TokensOfType("INDENT", n)
       /\ outcome = "returned" =>
             /\ TokensOfType("OUTDENT", Len(delivered)) = TokensOfType("INDENT", Len(delivered))
             /\ SubSeq(delivered, 1, Len(delivered) - 1) = Lex(input_text)

\* a text read to its end that went two levels in, came back one level
\* before its end and had the other level closed by the end
C30_Witness ==
    /\ outcome = "returned"
    /\ ValidIndentation
    /\ TokensOfType("INDENT", Len(delivered)) = 2
    /\ TokensOfType("OUTDENT", Len(delivered) - 2) = 1
    /\ delivered[Len(delivered) - 1].type = "OUTDENT"

-----------------------------------------------------------------------------
(* A lexer on its own, asked for its tokens one call at a time and asked   *)
(* again after its input has run out.  lexers holds the one lexer, ret the *)
(* token of the last call, delivered every token so far.                   *)

\* the calls made after the first END_OF_FILE
MaxCallsAfterEnd == 3

\* the texts a lexer is made for: the empty text and the files of the disk
LexerTexts == {""} \cup {Disk[path].text : path \in DOMAIN Disk}

PullLexers ==
    {MetaphorLexer(text, <<"test.txt">>) : text \in LexerTexts}
    \cup {EmbedLexer(text, <<"test.txt">>) : text \in LexerTexts}

PullInit ==
    /\ nodes = <<MetaphorASTNode("ROOT", <<>>)>>
    /\ parse_errors = <<>>
    /\ \E lexer \in PullLexers : lexers = <<lexer>>
    /\ previously_seen_files = {}
    /\ search_paths = <<>>
    /\ current_token = NoToken
    /\ stack = <<>>
    /\ ret = ReturnsNone
    /\ outcome = "new"
    /\ input_text = <<>>
    /\ delivered = <<>>
    /\ included = <<>>
    /\ other = NoInstance

EndsGiven == Cardinality({i \in 1..Len(delivered) : delivered[i].type = "END_OF_FILE"})

\* lexer.get_next_token(): the next token of the input; at its end
\* END_OF_FILE, with the lexer left where it is
lexer_get_next_token ==
    /\ EndsGiven <= MaxCallsAfterEnd
    /\ \E token \in LexerNextTokens(lexers[1]) :
          /\ ret' = ReturnsToken(token)
          /\ delivered' = Append(delivered, token)
          /\ lexers' = IF token.type = "END_OF_FILE" THEN lexers ELSE Advance
    /\ outcome' = "returned"
    /\ UNCHANGED <<nodes, parse_errors, previously_seen_files, search_paths,
                   current_token, stack, input_text, included, other>>

PullNext == lexer_get_next_token

PullSpec == PullInit /\ [][PullNext]_vars

\* C31: once a lexer, structural or embed, has delivered its last content
\* token, every call of its get_next_token returns END_OF_FILE, as often as
\* it is called, and none raises; a lexer of the empty text returns
\* END_OF_FILE at the first call.
C31_EndOfFileRepeats ==
    /\ \A i \in 1..Len(delivered) :
          /\ i > Len(lexers[1].input) <=> delivered[i].type = "END_OF_FILE"
          /\ i <= Len(lexers[1].input)
                => /\ delivered[i].type = lexers[1].input[i].type
                   /\ delivered[i].value = lexers[1].input[i].value
    /\ outcome # "new" => ret.token = delivered[Len(delivered)]
    /\ outcome \in {"new", "returned"}

\* a structural lexer with content that has returned END_OF_FILE three times
C31_Witness ==
    /\ lexers[1].class = "MetaphorLexer"
    /\ Len(lexers[1].input) >= 2
    /\ EndsGiven = 3
    /\ ret.token.type = "END_OF_FILE"

\* the lexer of the empty text has returned END_OF_FILE at its first call
C31_EmptyInput ==
    /\ lexers[1].class = "MetaphorLexer"
    /\ lexers[1].input = <<>>
    /\ Len(delivered) = 1
    /\ ret.token.type = "END_OF_FILE"

-----------------------------------------------------------------------------
(* Lines indented less than the one before.                                *)

\* the tokens the step has added to the stream
NewTokens == SubSeq(delivered', Len(delivered) + 1, Len(delivered'))

\* the line the step has read, and the column its content begins at
NewLine == input_text'[Len(input_text')]
NewColumn == NewLine.indent + 1

\* the levels of the indentation stack deeper than column
LevelsAbove(indent_stack, column) ==
    Cardinality({i \in 1..Len(indent_stack) : indent_stack[i] > column})

\* the step reads a line with content, indented with spaces to less than the
\* current level
ReadsOutdentedLine ==
    /\ Len(input_text') = Len(input_text) + 1
    /\ NewLine.kind \in {"text", "keyword"}
    /\ ~NewLine.tab
    /\ ~lexers[1].in_fenced_code
    /\ NewColumn < lexers[1].indent_stack[Len(lexers[1].indent_stack)]

\* C32: for a line indented less than the current level the lexer gives
\* one OUTDENT for every level closed when the new column is that of an
\* enclosing level, and otherwise exactly one BAD_OUTDENT whose column is
\* the first content column of the line; after them comes the content of the
\* line, and nothing is raised.
C32_Outdent ==
    [][ReadsOutdentedLine =>
          LET indent_stack == lexers[1].indent_stack
              closed == LevelsAbove(indent_stack, NewColumn)
              n == Len(input_text')
          IN  /\ outcome' = "new"
              /\ IF \E i \in 1..Len(indent_stack) : indent_stack[i] = NewColumn
                 THEN /\ Len(NewTokens) > closed
                      /\ \A i \in 1..Len(NewTokens) :
                            NewTokens[i].type = "OUTDENT" <=> i <= closed
                      /\ \A i \in 1..Len(NewTokens) :
                            NewTokens[i].type \notin {"BAD_OUTDENT", "BAD_INDENT", "INDENT"}
                      /\ lexers'[1].indent_stack
                            = SubSeq(indent_stack, 1, Len(indent_stack) - closed)
                 ELSE /\ NewTokens[1].type = "BAD_OUTDENT"
                      /\ NewTokens[1].line = n
                      /\ NewTokens[1].column = NewColumn
                      /\ \A i \in 2..Len(NewTokens) :
                            NewTokens[i].type \notin
                               {"OUTDENT", "BAD_OUTDENT", "BAD_INDENT", "INDENT"}
                      /\ lexers'[1].indent_stack = indent_stack]_vars

\* eight spaces, then five: one BAD_OUTDENT at column 6
C32_Witness ==
    /\ Len(input_text) >= 2
    /\ input_text[Len(input_text) - 1].indent = 8
    /\ input_text[Len(input_text)].indent = 5
    /\ lexers[1].indent_stack = <<1, 9>>
    /\ \E i \in 1..Len(delivered) :
          /\ delivered[i].type = "BAD_OUTDENT"
          /\ delivered[i].column = 6
          /\ delivered[i].line = Len(input_text)

\* two levels closed by one line: two OUTDENT tokens in a row
C32_TwoLevels ==
    \E i \in 1..(Len(delivered) - 1) :
       /\ delivered[i].type = "OUTDENT"
       /\ delivered[i + 1].type = "OUTDENT"
       /\ delivered[i].line = delivered[i + 1].line
       /\ outcome = "new"

\* ---------------------------------------------------------------------
\* Fenced code blocks
\* ---------------------------------------------------------------------

\* the step reads a line while the lexer is inside a fenced code block
ReadsFencedLine ==
    /\ Len(input_text') = Len(input_text) + 1
    /\ lexers[1].in_fenced_code

\* the characters of a line, indentation included
WholeLine(line) ==
    [i \in 1..line.indent |-> " "]
      \o (CASE line.kind = "keyword" -> KeywordValue(line.keyword) \o line.rest
            [] line.kind = "comment" -> <<"#">>
            [] line.kind = "blank" -> <<"">>
            [] OTHER -> line.rest)

\* the line the step has read closes the fenced code block
ClosesFence ==
    /\ NewLine.kind = "fence"
    /\ NewColumn = lexers[1].indent_stack[Len(lexers[1].indent_stack)]

\* C33: a line read inside a fenced code block, be it blank, a comment or
\* one that starts with a keyword, gives exactly one TEXT token, on its own
\* line, whose value is the line less the indentation of the block; the
\* indentation stack is left as it is, and the fence flag is off after the
\* closing line and on after every other
C33_FencedLines ==
    [][ReadsFencedLine =>
          /\ Len(NewTokens) = 1
          /\ NewTokens[1].type = "TEXT"
          /\ NewTokens[1].line = Len(input_text')
          /\ (NewLine.indent >= lexers[1].indent_stack[Len(lexers[1].indent_stack)] - 1
                /\ ~NewLine.tab
                => [i \in 1..(lexers[1].indent_stack[Len(lexers[1].indent_stack)] - 1) |-> " "]
                     \o NewTokens[1].value = WholeLine(NewLine))
          /\ (NewLine.kind = "blank" => NewTokens[1].value = <<"">>)
          /\ lexers'[1].indent_stack = lexers[1].indent_stack
          /\ lexers'[1].in_fenced_code = ~ClosesFence]_vars

\* a fenced code block one level deep with a keyword line and a blank line in
\* it, closed again: four TEXT tokens and no CONTEXT
C33_Witness ==
    /\ Len(input_text) = 4
    /\ input_text[1] = FenceLine(4)
    /\ input_text[2] = KeywordLine(8, "CONTEXT", <<"Label">>)
    /\ input_text[3] = BlankLine
    /\ input_text[4] = FenceLine(4)
    /\ ~lexers[1].in_fenced_code
    /\ [i \in 1..Len(delivered) |-> delivered[i].type]
         = <<"INDENT", "TEXT", "TEXT", "TEXT", "TEXT">>
    /\ delivered[3].value = <<" ", " ", " ", " ">> \o KeywordValue("CONTEXT") \o <<"Label">>
    /\ delivered[4].value = <<"">>

\* a comment line inside a fenced code block is a TEXT token
C33_CommentInFence ==
    /\ Len(input_text) = 2
    /\ input_text[1] = FenceLine(0)
    /\ input_text[2] = CommentLine(4)
    /\ lexers[1].in_fenced_code
    /\ delivered[2].type = "TEXT"
    /\ delivered[2].value = <<" ", " ", " ", " ", "#">>

\* ---------------------------------------------------------------------
\* Termination
\* ---------------------------------------------------------------------

\* the calls of the block parsers on the stack
OpenBlocks == {i \in 1..Len(stack) : stack[i].fn \in BlockParsers}

\* the END_OF_FILE tokens get_next_token has returned
EndsOfFileReturned == {i \in 1..Len(delivered) : delivered[i].type = "END_OF_FILE"}

\* the body of the innermost block has received a token that ends it
BodyEnds ==
    /\ \E fn \in BlockParsers : Running(fn, "body")
    /\ ret.token.type \in {"OUTDENT", "END_OF_FILE"}

\* C34: a parse that has begun ends, with a tree or with
\* MetaphorParserError, however deep the blocks are nested; the body of a
\* block ends at the first OUTDENT or END_OF_FILE it receives, returning its
\* node; and once get_next_token has returned END_OF_FILE no lexer is pushed,
\* so each enclosing block receives END_OF_FILE again and ends in its turn
C34_Terminates ==
    /\ (outcome = "running") ~> Ended
    /\ [][BodyEnds => /\ stack' = Return
                      /\ ret' = ReturnsNode(top.node)]_vars
    /\ [][EndsOfFileReturned # {} /\ ~Ended
            => /\ lexers' = <<>>
               /\ Cardinality(OpenBlocks') <= Cardinality(OpenBlocks)
               /\ \A i \in 1..Len(delivered') :
                     i > Len(delivered) => delivered'[i].type = "END_OF_FILE"]_vars

\* a Context block holding a nested Context block that was closed by the end
\* of the input receives END_OF_FILE again
C34_Witness ==
    /\ Running("parse_context", "body")
    /\ ret.token.type = "END_OF_FILE"
    /\ Cardinality(EndsOfFileReturned) >= 2
    /\ \E i \in 1..Len(nodes[top.node].children) :
          nodes[nodes[top.node].children[i]].node_type = "CONTEXT"
    /\ \A i \in 1..Len(delivered) : delivered[i].type # "OUTDENT"

\* ---------------------------------------------------------------------
\* The shape of the tree
\* ---------------------------------------------------------------------

\* the types of the children a node of type node_type may have
ChildTypes(node_type) ==
    CASE node_type = "ROOT" -> {"TEXT", "ROLE", "CONTEXT", "ACTION"}
      [] node_type = "CONTEXT" -> {"TEXT", "CONTEXT"}
      [] node_type \in {"ROLE", "ACTION"} -> {"TEXT"}
      [] OTHER -> {}

\* C35: in every state of a parse, ended or not and with errors or not, a
\* TEXT node has no children, a ROLE or ACTION node has TEXT children only,
\* a CONTEXT node TEXT and CONTEXT children only, and the root TEXT, ROLE,
\* CONTEXT and ACTION children only; the TEXT children of the root are the
\* lines of the preamble, so no TEXT token of the top level is among them
C35_TreeShape ==
    /\ \A n \in 1..Len(nodes) : \A i \in 1..Len(nodes[n].children) :
          nodes[nodes[n].children[i]].node_type \in ChildTypes(nodes[n].node_type)
    /\ \A i \in 1..Len(RootChildren) :
          nodes[RootChildren[i]].node_type = "TEXT"
            => /\ i <= Len(preamble)
               /\ nodes[RootChildren[i]].value = <<preamble[i]>>

\* a parse has ended whose first token was a TEXT at the top level and whose
\* tree holds a Context block nested in a Context block
C35_Witness ==
    /\ Ended
    /\ delivered # <<>>
    /\ delivered[1].type = "TEXT"
    /\ \E n \in 1..Len(nodes) :
          /\ nodes[n].node_type = "CONTEXT"
          /\ n \in {RootChildren[i] : i \in 1..Len(RootChildren)}
          /\ \E i \in 1..Len(nodes[n].children) :
                nodes[nodes[n].children[i]].node_type = "CONTEXT"

\* a Role block with a TEXT child, in a parse that recorded errors
C35_RoleWithText ==
    /\ outcome = "MetaphorParserError"
    /\ \E n \in 1..Len(nodes) :
          /\ nodes[n].node_type = "ROLE"
          /\ \E i \in 1..Len(nodes[n].children) :
                nodes[nodes[n].children[i]].node_type = "TEXT"

\* ---------------------------------------------------------------------
\* Content is kept, in order
\* ---------------------------------------------------------------------

\* the values of the TEXT nodes met on a walk of the nodes of list and of
\* their descendants, depth first and from left to right
RECURSIVE TextWalk(_)
TextWalk(list) ==
    IF list = <<>> THEN <<>>
    ELSE (IF nodes[Head(list)].node_type = "TEXT"
          THEN <<nodes[Head(list)].value>> ELSE <<>>)
           \o TextWalk(nodes[Head(list)].children)
           \o TextWalk(Tail(list))

\* the children of the root after the preamble
AfterPreamble == SubSeq(RootChildren, Len(preamble) + 1, Len(RootChildren))

\* the TEXT tokens get_next_token has returned, in order
DeliveredText == SelectSeq(delivered, LAMBDA token : token.type = "TEXT")

\* the TEXT node objects made, attached or not
TextNodes == {n \in 1..Len(nodes) : nodes[n].node_type = "TEXT"}

\* C36: when parse() returns the tree, there is one TEXT node for every line
\* of the preamble and one for every TEXT token get_next_token returned, and
\* the walk of the tree after the preamble, depth first and from left to
\* right, gives the values of those tokens in the order they were returned
C36_TextKeptInOrder ==
    outcome = "returned"
      => /\ Cardinality(TextNodes) = Len(preamble) + Len(DeliveredText)
         /\ TextWalk(AfterPreamble)
              = [i \in 1..Len(DeliveredText) |-> DeliveredText[i].value]

\* a tree was returned with a text in a Context block nested in a Context
\* block that has a text of its own, the two different
C36_Witness ==
    /\ outcome = "returned"
    /\ \E n \in 1..Len(nodes) :
          /\ nodes[n].node_type = "CONTEXT"
          /\ \E i, j \in 1..Len(nodes[n].children) :
                /\ i < j
                /\ nodes[nodes[n].children[i]].node_type = "TEXT"
                /\ nodes[nodes[n].children[j]].node_type = "CONTEXT"
                /\ \E m \in 1..Len(nodes[nodes[n].children[j]].children) :
                      LET text == nodes[nodes[nodes[n].children[j]].children[m]]
                      IN  /\ text.node_type = "TEXT"
                          /\ text.value # nodes[nodes[n].children[i]].value

\* ---------------------------------------------------------------------
\* Sections of included files
\* ---------------------------------------------------------------------

\* C37: a section token at top level whose kind has been parsed before
\* records "already defined" at the token, whichever file the token comes
\* from, and the section is parsed all the same; a CONTEXT token in the body
\* of a Context, whichever file it comes from, records nothing and its block
\* becomes the last child of that Context
C37_DuplicatesAcrossFiles ==
    /\ [][(AtTopLevel /\ ret.token.type \in Sections
             /\ CountType(RootChildren, ret.token.type) >= 1)
            => /\ parse_errors' =
                    Append(parse_errors,
                           MetaphorParserSyntaxError(AlreadyDefined(ret.token.type),
                               ret.token.filename, ret.token.line, ret.token.column,
                               ret.token.input))
               /\ stack'[Len(stack) + 1].fn = BlockParser(ret.token.type)
               /\ stack'[Len(stack) + 1].token = ret.token]_vars
    /\ [][(Running("parse_context", "body") /\ ret.token.type = "CONTEXT")
            => /\ parse_errors' = parse_errors
               /\ stack'[Len(stack)].pc = "attach"
               /\ stack'[Len(stack) + 1].fn = "parse_context"
               /\ stack'[Len(stack) + 1].token = ret.token]_vars
    /\ [][Running("parse_context", "attach")
            => /\ parse_errors' = parse_errors
               /\ nodes[ret.node].node_type = "CONTEXT"
               /\ nodes'[top.node].children = Append(nodes[top.node].children, ret.node)
               /\ nodes'[ret.node].parent = top.node]_vars

\* a section of an included file has just been recorded as a duplicate
C37_Witness ==
    /\ Len(stack) >= 2
    /\ stack[1].fn = "parse" /\ stack[1].pc = "attach"
    /\ Len(lexers) >= 2
    /\ stack[2].token.filename = lexers[Len(lexers)].filename
    /\ stack[2].token.filename # lexers[1].filename
    /\ parse_errors # <<>>
    /\ parse_errors[Len(parse_errors)].message = AlreadyDefined(stack[2].token.type)
    /\ parse_errors[Len(parse_errors)].filename = stack[2].token.filename

\* the Context of an included file has become a child of the Context whose
\* body included it, with no error recorded
C37_NestedFromInclude ==
    /\ Len(stack) >= 2
    /\ stack[2].fn = "parse_context"
    /\ stack[2].node # 0
    /\ stack[2].token.filename = <<"test.m6r">>
    /\ parse_errors = <<>>
    /\ \E i \in 1..Len(nodes[stack[2].node].children) :
          /\ nodes[nodes[stack[2].node].children[i]].node_type = "CONTEXT"
          /\ nodes[nodes[stack[2].node].children[i]].value = <<"Include">>

\* ---------------------------------------------------------------------
\* The top-level file and Include
\* ---------------------------------------------------------------------

\* _parse_include has the name of the top-level file of the parse as the file
\* to include
IncludesTopLevelFile ==
    /\ Running("parse_include", "token_next")
    /\ ret.token.type = "KEYWORD_TEXT"
    /\ lexers # <<>>
    /\ realpath(ret.token.value) = realpath(lexers[1].filename)

\* C38: an Include that names the top-level file of the parse, be the parse
\* begun by parse_file or by parse, ends the parse with MetaphorParserError
\* whose last entry says the file has already been used, and pushes no lexer
C38_TopLevelFileAlreadyUsed ==
    [][IncludesTopLevelFile
         => /\ outcome' = "MetaphorParserError"
            /\ AlreadyUsed(parse_errors'[Len(parse_errors')])
            /\ lexers' = lexers]_vars

\* the Include of a parse begun by parse_file names the top-level file
C38_ParseFileCase ==
    /\ IncludesTopLevelFile
    /\ realpath(lexers[1].filename) \in previously_seen_files

\* the Include of a parse begun by parse names the top-level file
C38_ParseCase ==
    /\ IncludesTopLevelFile
    /\ realpath(lexers[1].filename) \notin previously_seen_files

\* ---------------------------------------------------------------------
\* Tokens in the place of an INDENT or of a file name
\* ---------------------------------------------------------------------

\* the header of a block has fetched a token where it expects INDENT, and it
\* is not one
NoIndentInHeader ==
    /\ \E fn \in BlockParsers :
          \/ Running(fn, "indent_token")
          \/ Running(fn, "init_token") /\ ret.token.type # "KEYWORD_TEXT"
    /\ ret.token.type # "INDENT"

\* _parse_include or _parse_embed has fetched a token that is no file name
NoFileName ==
    /\ \E fn \in Handlers : Running(fn, "token_next")
    /\ ret.token.type # "KEYWORD_TEXT"

\* C39: a token that is no INDENT where a block header expects one is
\* dropped: the step makes the node of the block and nothing else, attaches
\* nothing, leaves every frame on the stack and calls get_next_token for the
\* first token of the body, the token itself being kept nowhere; a token
\* that is no file name after Include or Embed is dropped as well, the
\* handler returning to the loop of get_next_token with no node made
C39_TokenDiscarded ==
    /\ [][NoIndentInHeader
            => /\ Len(nodes') = Len(nodes) + 1
               /\ SubSeq(nodes', 1, Len(nodes)) = nodes
               /\ nodes'[Len(nodes')].node_type = NodeType(top.fn)
               /\ nodes'[Len(nodes')].children = <<>>
               /\ Len(stack') = Len(stack) + 1
               /\ \A i \in 1..(Len(stack) - 1) : stack'[i] = stack[i]
               /\ stack'[Len(stack)].fn = top.fn
               /\ stack'[Len(stack)].pc = "body"
               /\ stack'[Len(stack')] = GetNextTokenFrame
               /\ \A i \in 1..Len(stack') : stack'[i].token # ret.token
               /\ ret' = ReturnsNone]_vars
    /\ [][NoFileName
            => /\ nodes' = nodes
               /\ lexers' = lexers
               /\ stack' = Return
               /\ stack'[Len(stack')].fn = "get_next_token"
               /\ \A i \in 1..Len(stack') : stack'[i].token # ret.token
               /\ ret' = ReturnsNone]_vars

\* test_missing_indent_after_keyword: the text after "Role: Test" is not
\* indented; the parse has ended with no TEXT node but the preamble's
C39_Witness ==
    /\ Ended
    /\ Len(delivered) >= 3
    /\ delivered[1].type = "ROLE"
    /\ delivered[2].type = "KEYWORD_TEXT"
    /\ delivered[3].type = "TEXT"
    /\ Cardinality({n \in 1..Len(nodes) : nodes[n].node_type = "TEXT"}) = Len(preamble)
    /\ \E i \in 1..Len(parse_errors) :
          parse_errors[i].message
            = <<"Expected indent after keyword description for '", "Role", "' block">>

\* an OUTDENT in the place of the INDENT has not ended the block: the text
\* after it is in the block
C39_OutdentEndsNothing ==
    /\ Len(delivered) >= 4
    /\ delivered[1].type = "ROLE"
    /\ delivered[2].type = "KEYWORD_TEXT"
    /\ delivered[3].type = "OUTDENT"
    /\ delivered[4].type = "TEXT"
    /\ \E n \in 1..Len(nodes) :
          /\ nodes[n].node_type = "ROLE"
          /\ Len(nodes[n].children) = 1
          /\ nodes[nodes[n].children[1]].node_type = "TEXT"

\* a TEXT in the place of the file name of an Include has been dropped
C39_TextAfterInclude ==
    /\ Ended
    /\ Len(delivered) >= 1
    /\ delivered[1].type = "TEXT"
    /\ Len(parse_errors) = 1
    /\ parse_errors[1].message = <<"Expected file name for 'Include'">>
    /\ Len(nodes) = Len(preamble) + 1

\* ---------------------------------------------------------------------
\* More than one call on a MetaphorParser
\* ---------------------------------------------------------------------
(* A first parser is given one call, of any input; a second parser is then *)
(* given any call and, after it, the call the first parser was given.      *)
(* other holds the number of the parser, the calls made on it, the input   *)
(* of the first parser's call and what that call produced.                 *)

\* what the calls are given: the files of TwoInputs and a file that is not
\* there
ReuseInputs == TwoInputs \cup {<< <<"nonexistent.m6r">>, <<>> >>}

ReuseInit ==
    /\ nodes = MetaphorParser(1).nodes
    /\ parse_errors = MetaphorParser(1).parse_errors
    /\ lexers = MetaphorParser(1).lexers
    /\ previously_seen_files = MetaphorParser(1).previously_seen_files
    /\ search_paths = MetaphorParser(1).search_paths
    /\ current_token = MetaphorParser(1).current_token
    /\ stack = MetaphorParser(1).stack
    /\ ret = MetaphorParser(1).ret
    /\ outcome = MetaphorParser(1).outcome
    /\ input_text = MetaphorParser(1).input_text
    /\ delivered = MetaphorParser(1).delivered
    /\ included = MetaphorParser(1).included
    /\ other = [id |-> 1, calls |-> 0, input |-> <<>>, result |-> <<>>]

\* the tree under node, by value: its type, its value and its children
RECURSIVE Subtree(_)
Subtree(node) ==
    [node_type |-> nodes[node].node_type,
     value |-> nodes[node].value,
     children |-> [i \in 1..Len(nodes[node].children) |-> Subtree(nodes[node].children[i])]]

\* what a call has given its caller: the tree, or the exception and the
\* error list it carries
Result ==
    IF outcome = "returned"
    THEN [outcome |-> outcome, tree |-> Subtree(syntax_tree), errors |-> <<>>]
    ELSE [outcome |-> outcome, tree |-> <<>>, errors |-> parse_errors]

\* no call is running on the parser
Idle == stack = <<>> /\ outcome # "running"

\* the call of input may be made now: any call as the first of a parser, and
\* as the second call of the second parser the call the first parser had
MayCall(input) ==
    /\ Idle
    /\ \/ other.calls = 0
       \/ other.id = 2 /\ other.calls = 1 /\ input = other.input

Called(input) ==
    [other EXCEPT !.calls = @ + 1, !.input = IF other.id = 1 THEN input ELSE @]

\* parse_file(filename, search_paths) on a parser in whatever state its
\* earlier calls left it: the file is new to it and can be read
parse_file_call(filename, paths) ==
    /\ MayCall(<<filename, paths>>)
    /\ ~check_file_not_loaded(previously_seen_files, filename).raised
    /\ ~read_file(filename).raised
    /\ previously_seen_files' = check_file_not_loaded(previously_seen_files, filename).seen
    /\ ParseBegins(MetaphorLexer(read_file(filename).text, filename), paths)
    /\ other' = Called(<<filename, paths>>)
    /\ UNCHANGED <<parse_errors, current_token, ret, input_text, delivered, included>>

\* except FileNotFoundError as e, in parse_file()
parse_file_call_FileNotFoundError(filename, paths) ==
    /\ MayCall(<<filename, paths>>)
    /\ ~check_file_not_loaded(previously_seen_files, filename).raised
    /\ read_file(filename).raised
    /\ previously_seen_files' = check_file_not_loaded(previously_seen_files, filename).seen
    /\ Raises(Append(parse_errors,
                     MetaphorParserSyntaxError(read_file(filename).message, <<>>, 0, 0, <<>>)))
    /\ other' = Called(<<filename, paths>>)
    /\ UNCHANGED <<nodes, lexers, search_paths, current_token, input_text, delivered, included>>

\* _check_file_not_loaded raises in parse_file(), which has no except clause
\* for MetaphorParserFileAlreadyUsedError: the caller gets that exception
parse_file_call_FileAlreadyUsedError(filename, paths) ==
    /\ MayCall(<<filename, paths>>)
    /\ check_file_not_loaded(previously_seen_files, filename).raised
    /\ outcome' = "MetaphorParserFileAlreadyUsedError"
    /\ ret' = ReturnsNone
    /\ other' = Called(<<filename, paths>>)
    /\ UNCHANGED <<nodes, parse_errors, lexers, previously_seen_files, search_paths,
                   current_token, stack, input_text, delivered, included>>

\* MetaphorParser(): the second parser, made when the call on the first has
\* ended
new_parser ==
    /\ Idle
    /\ other.id = 1
    /\ other.calls = 1
    /\ nodes' = MetaphorParser(2).nodes
    /\ parse_errors' = MetaphorParser(2).parse_errors
    /\ lexers' = MetaphorParser(2).lexers
    /\ previously_seen_files' = MetaphorParser(2).previously_seen_files
    /\ search_paths' = MetaphorParser(2).search_paths
    /\ current_token' = MetaphorParser(2).current_token
    /\ stack' = MetaphorParser(2).stack
    /\ ret' = MetaphorParser(2).ret
    /\ outcome' = MetaphorParser(2).outcome
    /\ input_text' = MetaphorParser(2).input_text
    /\ delivered' = MetaphorParser(2).delivered
    /\ included' = MetaphorParser(2).included
    /\ other' = [id |-> 2, calls |-> 0, input |-> other.input, result |-> Result]

ReuseNext ==
    \/ \E input \in ReuseInputs : parse_file_call(input[1], input[2])
    \/ \E input \in ReuseInputs : parse_file_call_FileNotFoundError(input[1], input[2])
    \/ \E input \in ReuseInputs : parse_file_call_FileAlreadyUsedError(input[1], input[2])
    \/ new_parser
    \/ get_next_token_include
    \/ get_next_token_embed
    \/ get_next_token_end_of_file
    \/ get_next_token_return
    \/ get_next_token_empty
    \/ parse_include_no_filename
    \/ parse_include_already_used
    \/ parse_include_not_found
    \/ parse_include_push
    \/ parse_embed_no_filename
    \/ parse_embed_no_match
    \/ parse_embed_push
    \/ parse_embed_not_found
    \/ parse_section
    \/ parse_attach
    \/ parse_end_of_file_raise
    \/ parse_end_of_file_return
    \/ parse_unexpected
    \/ \E fn \in BlockParsers : block_keyword_text(fn)
    \/ \E fn \in BlockParsers : block_indent_token(fn)
    \/ \E fn \in BlockParsers : block_no_keyword_text(fn)
    \/ \E fn \in BlockParsers : block_text(fn)
    \/ context_nested
    \/ context_attach
    \/ \E fn \in BlockParsers : block_return(fn)
    \/ \E fn \in BlockParsers : block_unexpected(fn)

ReuseSpec == ReuseInit /\ [][ReuseNext]_vars

\* the second call on the second parser has ended
SecondCallEnded == Idle /\ other.id = 2 /\ other.calls = 2

\* C40: a call on a parser that has been given a call before produces what
\* the same call produces on a new parser: the same tree, or the same
\* exception with the same error list
C40_CallsAreIndependent == SecondCallEnded => Result = other.result

\* the second call is of another file than the first, and that file parses
\* without errors on a new parser
C40_OtherFile ==
    /\ SecondCallEnded
    /\ other.result.outcome = "returned"
    /\ outcome = "returned"
    /\ Result # other.result

\* the second call is of the file of the first
C40_SameFile ==
    /\ SecondCallEnded
    /\ outcome = "MetaphorParserFileAlreadyUsedError"
    /\ other.result.outcome = "returned"

=============================================================================
